---- MODULE Spec2Model ----
(***************************************************************************)
(* A model of the FFV1 version 3 decoder of rust-av/ffv1: the range coder, *)
(* the configuration record parser, the footer scan and the decoder driver *)
(* (Decoder::new, Decoder::decode_frame).                                   *)
(*                                                                         *)
(* Conventions.  A Rust slice or Vec is a sequence; Rust index i is        *)
(* element i + 1.  A call that can fail returns a record with a tag:       *)
(* "Ok" (with val), "Err" (with kind and reason) or "Panic".  A panic      *)
(* inside the coders is a sticky flag `panic` of the coder record: once    *)
(* set, the remaining operations of the call do nothing and the caller     *)
(* reports "Panic".  Integers keep their Rust width: u8 and u16 values are *)
(* reduced modulo 2^8 and 2^16 where the code casts or shifts, a 32-bit    *)
(* CRC is a pair of 16-bit halves.                                         *)
(***************************************************************************)
EXTENDS Integers, Sequences, FiniteSets, TLC

VARIABLES
    overflow_checks,  \* the build: TRUE checks integer overflow (debug), FALSE wraps
    pc,               \* "start", "ready" (a decoder exists), "failed", "dead" (panicked),
                      \* "parsed", "scanned"
    decoder,          \* the Decoder (record, state_transition, current_frame)
    result,           \* what the last call returned
    calls,            \* the number of decode_frame calls made
    last,             \* the last decode_frame call: its packet, the slices it found in
                      \* the decoder, the slices it began, its result on a new decoder
    input,            \* the arguments of Decoder::new, or of the function under test
    output            \* the result of the function under test

vars == <<overflow_checks, pc, decoder, result, calls, last, input, output>>

\* let name = value; rest: the binding is the one-point function [name \in {value} |-> rest]
\* and Let is its value, so value is computed once, where the binding is made
Let(binding) == binding[CHOOSE name \in DOMAIN binding : TRUE]

(***************************************************************************)
(* Results and errors (src/src/error.rs).                                  *)
(***************************************************************************)
Ok(v) == [tag |-> "Ok", val |-> v]

\* Error::<kind>(reason); the reason is the list of the pieces format! joins.
Err(kind, reason) == [tag |-> "Err", kind |-> kind, reason |-> reason]

Panic(msg) == [tag |-> "Panic", msg |-> msg]

\* an error printed without its kind (what C6's formula is shown to tell apart)
ErrorPrefixNone(kind) == ""

\* impl Display for Error: "<prefix>: {0}"
ErrorPrefix(kind) ==
    CASE kind = "InvalidInputData"     -> "Invalid input data: "
      [] kind = "InvalidConfiguration" -> "Invalid configuration: "
      [] kind = "FrameError"           -> "Frame error: "
      [] kind = "SliceError"           -> "Slice error: "

\* a Display without the kind's prefix (what C8's formula is shown to tell apart)
DisplayBare(err) == err.reason

\* format!("{}", err)
Display(err) == <<ErrorPrefix(err.kind)>> \o err.reason

(***************************************************************************)
(* Constants (src/src/constants.rs).                                       *)
(***************************************************************************)
MAX_QUANT_TABLES == 8
MAX_CONTEXT_INPUTS == 5
CONTEXT_SIZE == 32

(***************************************************************************)
(* Word arithmetic.                                                        *)
(***************************************************************************)
\* Rust index i of a slice
At(s, i) == s[i + 1]

InBounds(s, i) == i >= 0 /\ i < Len(s)

\* &s[from..]
SliceFrom(s, from) == SubSeq(s, from + 1, Len(s))

\* vec![v; n]
Repeat(v, n) == [i \in 1..n |-> v]

min32(a, b) == IF a > b THEN b ELSE a

max32(a, b) == IF a < b THEN b ELSE a

abs32(n) == IF n >= 0 THEN n ELSE -n

\* bitwise exclusive or of two values below 2^bits
RECURSIVE Xor(_, _, _)
Xor(a, b, bits) ==
    IF bits = 0 THEN 0
    ELSE ((a + b) % 2) + 2 * Xor(a \div 2, b \div 2, bits - 1)

(***************************************************************************)
(* crc32_mpeg2 (crate::crc32mpeg2, whose file is not among the sources):   *)
(* polynomial 0x04C11DB7, initial value 0, no reflection, no final xor.    *)
(* The 32-bit remainder is kept as <<high half, low half>>.                *)
(***************************************************************************)
CrcPolyHi == 1217

CrcPolyLo == 7607

CrcShift(crc) ==
    Let([top \in {crc[1] \div 32768} |->
    Let([hi \in {((crc[1] % 32768) * 2) + (crc[2] \div 32768)} |->
    Let([lo \in {(crc[2] % 32768) * 2} |->
        IF top = 1 THEN <<Xor(hi, CrcPolyHi, 16), Xor(lo, CrcPolyLo, 16)>>
        ELSE <<hi, lo>>])])])

RECURSIVE CrcBits(_, _)
CrcBits(crc, n) == IF n = 0 \/ crc = <<>> THEN crc ELSE CrcBits(CrcShift(crc), n - 1)

\* one byte enters the register
CrcByte(crc, byte) == CrcBits(<<Xor(crc[1], byte * 256, 16), crc[2]>>, 8)

\* the bytes buf[lo..hi] enter the register in order, the first half before the second
RECURSIVE CrcFrom(_, _, _, _)
CrcFrom(buf, lo, hi, crc) ==
    IF hi <= lo \/ crc = <<>> THEN crc
    ELSE IF hi = lo + 1 THEN CrcByte(crc, At(buf, lo))
    ELSE Let([mid \in {(lo + hi) \div 2} |->
             CrcFrom(buf, mid, hi, CrcFrom(buf, lo, mid, crc))])

crc32_mpeg2(buf) == CrcFrom(buf, 0, Len(buf), <<0, 0>>)

CrcIsZero(crc) == crc = <<0, 0>>

(***************************************************************************)
(* DEFAULT_STATE_TRANSITION (crate::rangecoder::tables, whose file is not  *)
(* among the sources): the table of the FFV1 specification.                *)
(***************************************************************************)
DEFAULT_STATE_TRANSITION ==
    <<  0,   0,   0,   0,   0,   0,   0,   0,  20,  21,  22,  23,  24,  25,  26,  27,
       28,  29,  30,  31,  32,  33,  34,  35,  36,  37,  37,  38,  39,  40,  41,  42,
       43,  44,  45,  46,  47,  48,  49,  50,  51,  52,  53,  54,  55,  56,  56,  57,
       58,  59,  60,  61,  62,  63,  64,  65,  66,  67,  68,  69,  70,  71,  72,  73,
       74,  75,  75,  76,  77,  78,  79,  80,  81,  82,  83,  84,  85,  86,  87,  88,
       89,  90,  91,  92,  93,  94,  94,  95,  96,  97,  98,  99, 100, 101, 102, 103,
      104, 105, 106, 107, 108, 109, 110, 111, 112, 113, 114, 114, 115, 116, 117, 118,
      119, 120, 121, 122, 123, 124, 125, 126, 127, 128, 129, 130, 131, 132, 133, 133,
      134, 135, 136, 137, 138, 139, 140, 141, 142, 143, 144, 145, 146, 147, 148, 149,
      150, 151, 152, 152, 153, 154, 155, 156, 157, 158, 159, 160, 161, 162, 163, 164,
      165, 166, 167, 168, 169, 170, 171, 171, 172, 173, 174, 175, 176, 177, 178, 179,
      180, 181, 182, 183, 184, 185, 186, 187, 188, 189, 190, 190, 191, 192, 194, 194,
      195, 196, 197, 198, 199, 200, 201, 202, 202, 204, 205, 206, 207, 208, 209, 209,
      210, 211, 212, 213, 215, 215, 216, 217, 218, 219, 220, 220, 222, 223, 224, 225,
      226, 227, 227, 229, 229, 230, 231, 232, 234, 234, 235, 236, 237, 238, 239, 240,
      241, 242, 243, 244, 245, 246, 247, 248, 248,   0,   0,   0,   0,   0,   0,   0 >>

(***************************************************************************)
(* RangeCoder (src/src/rangecoder/range.rs).                               *)
(***************************************************************************)
\* set_table without Figure 18: one_state = table, zero_state left as it is
set_table_one_state(c, table) == [c EXCEPT !.one_state = table]

\* RangeCoder::set_table: one_state = table; zero_state[i] for i in 1..254
set_table(c, table) ==
    [c EXCEPT !.one_state = table,
              !.zero_state = [i \in 1..256 |->
                  IF i - 1 >= 1 /\ i - 1 < 255
                  THEN (256 - At(table, 256 - (i - 1))) % 256
                  ELSE c.zero_state[i]]]

\* RangeCoder::new: buf[0] and buf[1] are read unchecked
RangeCoder_new(buf) ==
    Let([short \in {Len(buf) < 2} |->
    Let([low0 \in {IF short THEN 0 ELSE At(buf, 0) * 256 + At(buf, 1)} |->
    Let([clamp \in {low0 >= 65280} |->
        set_table([buf        |-> buf,
                   pos        |-> IF clamp THEN Len(buf) - 1 ELSE 2,
                   low        |-> IF clamp THEN 65280 ELSE low0,
                   rng        |-> 65280,
                   cur_byte   |-> -1,
                   zero_state |-> Repeat(0, 256),
                   one_state  |-> Repeat(0, 256),
                   panic      |-> short],
                  DEFAULT_STATE_TRANSITION)])])])

\* a coder that never renormalises
refill_never(c) == c

\* RangeCoder::refill
refill(c) ==
    IF c.rng < 256
    THEN Let([rng \in {(c.rng * 256) % 65536} |->
         Let([low \in {(c.low * 256) % 65536} |->
             IF c.pos < Len(c.buf)
             THEN IF c.pos < 0
                  THEN [c EXCEPT !.rng = rng, !.low = low, !.panic = TRUE]
                  ELSE [c EXCEPT !.rng = rng, !.low = low + At(c.buf, c.pos),
                                 !.pos = c.pos + 1]
             ELSE [c EXCEPT !.rng = rng, !.low = low]])])
    ELSE c

\* RangeCoder::get on one state byte s: the coder, the new state byte, the bit
get(c, s) ==
    IF c.panic THEN [c |-> c, s |-> s, bit |-> FALSE]
    ELSE Let([rangeoff \in {(c.rng * s) \div 256} |->
         Let([rng \in {c.rng - rangeoff} |->
             IF c.low < rng
             THEN [c   |-> refill([c EXCEPT !.rng = rng]),
                   s   |-> At(c.zero_state, s),
                   bit |-> FALSE]
             ELSE [c   |-> refill([c EXCEPT !.low = c.low - rng, !.rng = rangeoff]),
                   s   |-> At(c.one_state, s),
                   bit |-> TRUE]])])

\* self.get(&mut state[i]) on a context vector: the coder, the vector, the bit
get_at(c, state, i) ==
    IF c.panic THEN [c |-> c, state |-> state, bit |-> FALSE]
    ELSE IF ~InBounds(state, i)
    THEN [c |-> [c EXCEPT !.panic = TRUE], state |-> state, bit |-> FALSE]
    ELSE Let([g \in {get(c, At(state, i))} |->
             [c |-> g.c, state |-> [state EXCEPT ![i + 1] = g.s], bit |-> g.bit]])

\* RangeCoder::br
br(c, state) == get_at(c, state, 0)

\* the exponent loop of RangeCoder::symbol: panics when e exceeds 31
RECURSIVE symbol_exponent(_, _, _)
symbol_exponent(c, state, e) ==
    Let([g \in {get_at(c, state, 1 + min32(e, 9))} |->
        IF g.c.panic \/ ~g.bit THEN [c |-> g.c, state |-> g.state, e |-> e]
        ELSE IF e + 1 > 31
        THEN [c |-> [g.c EXCEPT !.panic = TRUE], state |-> g.state, e |-> e + 1]
        ELSE symbol_exponent(g.c, g.state, e + 1)])

\* a = 2a + bit on u32, the result read as i32 (a as i32) when it is the last
Double32(a, bit) ==
    IF a < 1073741824 THEN 2 * a + bit
    ELSE ((a - 1073741824) * 2 + bit - 1073741824) - 1073741824

\* the mantissa loop of RangeCoder::symbol, i from e-1 down to 0
RECURSIVE symbol_mantissa(_, _, _, _)
symbol_mantissa(c, state, i, a) ==
    IF i < 0 \/ c.panic THEN [c |-> c, state |-> state, a |-> a]
    ELSE Let([g \in {get_at(c, state, 22 + min32(i, 9))} |->
             symbol_mantissa(g.c, g.state, i - 1, Double32(a, IF g.bit THEN 1 ELSE 0))])

\* a symbol that is 0 whatever is read: get(state[0]) alone
symbol_zero(c, state, signed) ==
    Let([g0 \in {get_at(c, state, 0)} |-> [c |-> g0.c, state |-> g0.state, val |-> 0]])

\* RangeCoder::symbol: 0 when get(state[0]) is set, else exponent, mantissa, sign
symbol(c, state, signed) ==
    Let([g0 \in {get_at(c, state, 0)} |->
        IF g0.c.panic \/ g0.bit THEN [c |-> g0.c, state |-> g0.state, val |-> 0]
        ELSE Let([ex \in {symbol_exponent(g0.c, g0.state, 0)} |->
             Let([ma \in {symbol_mantissa(ex.c, ex.state, ex.e - 1, 1)} |->
                 IF ex.c.panic THEN [c |-> ex.c, state |-> ex.state, val |-> 0]
                 ELSE IF signed
                 THEN Let([gs \in {get_at(ma.c, ma.state, 11 + min32(ex.e, 10))} |->
                          \* -(a as i32) overflows for a = 2^31
                      Let([min \in {ma.a = -2147483647 - 1} |->
                          [c |-> IF gs.bit /\ min /\ overflow_checks
                                 THEN [gs.c EXCEPT !.panic = TRUE] ELSE gs.c,
                           state |-> gs.state,
                           val |-> IF gs.bit /\ ~min THEN -ma.a ELSE ma.a]])])
                 ELSE [c |-> ma.c, state |-> ma.state, val |-> ma.a]])])])

\* RangeCoder::ur: symbol(state, false) as u32
ur(c, state) == symbol(c, state, FALSE)

\* RangeCoder::sr
sr(c, state) == symbol(c, state, TRUE)

\* RangeCoder::sentinal_end
sentinal_end(c) == get(c, 129).c

\* RangeCoder::get_pos
get_pos(c) == IF c.rng < 256 THEN c.pos - 1 ELSE c.pos

(***************************************************************************)
(* i32 arithmetic with the build's overflow behaviour.                     *)
(***************************************************************************)
MaxI32 == 2147483647

\* v as u8, v as i16, v as u16
as_u8(v) == v % 256

as_i16(v) == ((v + 32768) % 65536) - 32768

as_u16(v) == v % 65536

\* the product of two values below 2^16 as <<high half, low half>>
U16Mul(a, b) ==
    Let([p0 \in {(a % 256) * b} |->
    Let([p1 \in {(a \div 256) * b} |->
    Let([t \in {p0 + (p1 % 256) * 256} |->
        <<((t \div 65536) + (p1 \div 256)) % 65536, t % 65536>>])])])

\* a.wrapping_mul(b) on i32
WrapMul32(a, b) ==
    Let([al \in {a % 65536} |->
    Let([ah \in {(a \div 65536) % 65536} |->
    Let([bl \in {b % 65536} |->
    Let([bh \in {(b \div 65536) % 65536} |->
    Let([ll \in {U16Mul(al, bl)} |->
    Let([hi \in {(ll[1] + U16Mul(ah, bl)[2] + U16Mul(al, bh)[2]) % 65536} |->
        (IF hi >= 32768 THEN hi - 65536 ELSE hi) * 65536 + ll[2]])])])])])])

\* whether a * b leaves i32
MulOverflows(a, b) ==
    /\ a # 0
    /\ b # 0
    /\ \/ a = -MaxI32 - 1
       \/ b = -MaxI32 - 1
       \/ abs32(a) > MaxI32 \div abs32(b)

\* a * b on i32: [val, panic]
Mul32(a, b) ==
    IF MulOverflows(a, b)
    THEN [val |-> WrapMul32(a, b), panic |-> overflow_checks]
    ELSE [val |-> a * b, panic |-> FALSE]

\* a + 1 on i32: [val, panic]
Inc32(a) ==
    IF a = MaxI32 THEN [val |-> -MaxI32 - 1, panic |-> overflow_checks]
    ELSE [val |-> a + 1, panic |-> FALSE]

\* a / 2 on i32 (towards zero)
Half32(a) == IF a >= 0 THEN a \div 2 ELSE -((-a) \div 2)

(***************************************************************************)
(* ConfigRecord::parse_config_record (src/src/record.rs).                  *)
(***************************************************************************)
ZeroTable == Repeat(0, 256)

\* for _ in 0..(len_minus1 + 1) { quant_tables[i][j][k] = (scale * v) as i16; k += 1 }
\* n is the number of entries; writing entry 256 panics
fill_quant(table, k, n, val) ==
    IF n < 0 \/ k + n > 256
    THEN [table |-> table, k |-> 256, panic |-> TRUE]
    ELSE [table |-> [x \in 1..256 |-> IF x - 1 >= k /\ x - 1 < k + n THEN val ELSE table[x]],
          k |-> k + n, panic |-> FALSE]

\* while k < 128 { len_minus1 = coder.ur(quant_state); fill; v += 1 }
RECURSIVE read_quant_runs(_, _, _, _, _, _)
read_quant_runs(c, quant_state, table, scale, v, k) ==
    IF c.panic \/ k >= 128 THEN [c |-> c, table |-> table, v |-> v]
    ELSE Let([r \in {ur(c, quant_state)} |->
             \* len_minus1 + 1 on u32: u32::MAX (read as -1) overflows
         Let([wrap \in {r.val = -1} |->
         Let([n \in {IF wrap THEN 0 ELSE IF r.val < 0 THEN 257 ELSE r.val + 1} |->
         Let([m \in {Mul32(scale, v)} |->
         Let([f \in {fill_quant(table, k, n, as_i16(m.val))} |->
         Let([bad \in {r.c.panic \/ (wrap /\ overflow_checks) \/ (n > 0 /\ m.panic) \/ f.panic} |->
             IF bad THEN [c |-> [r.c EXCEPT !.panic = TRUE], table |-> table, v |-> v]
             ELSE read_quant_runs(r.c, r.state, f.table, scale, v + 1, f.k)])])])])])])

\* one table of a set: read the runs, mirror, scale *= 2 * v - 1
read_quant_table(c, scale) ==
    Let([r \in {read_quant_runs(c, Repeat(128, CONTEXT_SIZE), ZeroTable, scale, 0, 0)} |->
    Let([t \in {r.table} |->
        \* quant_tables[i][j][256 - k] = -quant_tables[i][j][k] for k in 1..127,
        \* quant_tables[i][j][128] = -quant_tables[i][j][127]  (-(-32768) overflows i16)
    Let([mirrored \in {[x \in 1..256 |->
                        IF x - 1 > 128 THEN as_i16(-At(t, 256 - (x - 1)))
                        ELSE IF x - 1 = 128 THEN as_i16(-At(t, 127))
                        ELSE t[x]]} |->
    Let([neg \in {\E x \in 2..128 : t[x] = -32768} |->
    Let([s \in {Mul32(scale, 2 * r.v - 1)} |->
        [c |-> IF r.c.panic \/ (neg /\ overflow_checks) \/ s.panic
               THEN [r.c EXCEPT !.panic = TRUE] ELSE r.c,
         table |-> mirrored, scale |-> s.val]])])])])])

\* for j in 0..MAX_CONTEXT_INPUTS
RECURSIVE read_quant_set(_, _, _, _)
read_quant_set(c, scale, j, tables) ==
    IF c.panic \/ j >= MAX_CONTEXT_INPUTS THEN [c |-> c, tables |-> tables, scale |-> scale]
    ELSE Let([r \in {read_quant_table(c, scale)} |->
             read_quant_set(r.c, r.scale, j + 1, [tables EXCEPT ![j + 1] = r.table])])

\* for i in 0..quant_table_set_count: the tables and context_count[i] = (scale + 1) / 2
RECURSIVE read_quant_sets(_, _, _, _, _)
read_quant_sets(c, i, count, quant_tables, context_count) ==
    IF c.panic \/ i >= count
    THEN [c |-> c, quant_tables |-> quant_tables, context_count |-> context_count]
    ELSE Let([r \in {read_quant_set(c, 1, 0, Repeat(ZeroTable, MAX_CONTEXT_INPUTS))} |->
         Let([inc \in {Inc32(r.scale)} |->
         Let([cc \in {Half32(inc.val)} |->
             read_quant_sets(IF inc.panic THEN [r.c EXCEPT !.panic = TRUE] ELSE r.c,
                             i + 1, count,
                             [quant_tables EXCEPT ![i + 1] = r.tables],
                             [context_count EXCEPT ![i + 1] = cc])])])])

\* for k in lo..hi { initial_state_delta[i][j][k] = coder.sr(&mut state) as i16 }
\* on s = [c, state, set]; a range of more than one k is done in two halves
RECURSIVE read_state_deltas(_, _, _, _)
read_state_deltas(s, j, lo, hi) ==
    IF s.c.panic \/ hi <= lo THEN s
    ELSE IF hi = lo + 1
    THEN Let([r \in {sr(s.c, s.state)} |->
             [c |-> r.c, state |-> r.state,
              set |-> [s.set EXCEPT ![j + 1][lo + 1] = as_i16(r.val)]]])
    ELSE Let([mid \in {(lo + hi) \div 2} |->
             read_state_deltas(read_state_deltas(s, j, lo, mid), j, mid, hi)])

\* for j in lo..hi, in two halves
RECURSIVE read_context_deltas(_, _, _)
read_context_deltas(s, lo, hi) ==
    IF s.c.panic \/ hi <= lo THEN s
    ELSE IF hi = lo + 1 THEN read_state_deltas(s, lo, 0, CONTEXT_SIZE)
    ELSE Let([mid \in {(lo + hi) \div 2} |->
             read_context_deltas(read_context_deltas(s, lo, mid), mid, hi)])

\* for i in 0..quant_table_set_count: states_coded and the deltas of set i
\* (a negative context_count as usize is a capacity overflow)
RECURSIVE read_initial_state_delta(_, _, _, _, _, _)
read_initial_state_delta(c, state, i, count, context_count, delta) ==
    IF c.panic \/ i >= count THEN [c |-> c, state |-> state, delta |-> delta]
    ELSE IF context_count[i + 1] < 0
    THEN [c |-> [c EXCEPT !.panic = TRUE], state |-> state, delta |-> delta]
    ELSE Let([zero \in {Repeat(Repeat(0, CONTEXT_SIZE), context_count[i + 1])} |->
         Let([b \in {br(c, state)} |->
         Let([s0 \in {[c |-> b.c, state |-> b.state, set |-> zero]} |->
         Let([r \in {IF b.bit THEN read_context_deltas(s0, 0, context_count[i + 1]) ELSE s0} |->
             read_initial_state_delta(r.c, r.state, i + 1, count, context_count,
                                      Append(delta, r.set))])])])])

\* initial_states[i][j][k] = ((pred + initial_state_delta[i][j][k]) & 255) as u8,
\* pred = initial_states[i][j - 1][k] as i16 if j != 0 else 128; the sum is an i16
RECURSIVE initial_states_of_set(_, _, _, _)
initial_states_of_set(deltas, j, acc, overflow) ==
    IF j >= Len(deltas) THEN [states |-> acc, overflow |-> overflow]
    ELSE LET pred(k) == IF j # 0 THEN acc[j][k] ELSE 128
         IN  initial_states_of_set(deltas, j + 1,
                Append(acc, [k \in 1..CONTEXT_SIZE |-> (pred(k) + deltas[j + 1][k]) % 256]),
                overflow \/ \E k \in 1..CONTEXT_SIZE : pred(k) + deltas[j + 1][k] > 32767)

initial_states_from(delta) ==
    Let([sets \in {[i \in 1..Len(delta) |-> initial_states_of_set(delta[i], 0, <<>>, FALSE)]} |->
        [states |-> [i \in 1..Len(delta) |-> sets[i].states],
         panic  |-> overflow_checks /\ \E i \in 1..Len(delta) : sets[i].overflow]])

\* for state_transition_delta in state_transition_delta.iter_mut().skip(1), the
\* entries lo..hi on s = [c, state, delta], in two halves
RECURSIVE read_transition_delta(_, _, _)
read_transition_delta(s, lo, hi) ==
    IF s.c.panic \/ hi <= lo THEN s
    ELSE IF hi = lo + 1
    THEN Let([r \in {sr(s.c, s.state)} |->
             [c |-> r.c, state |-> r.state, delta |-> [s.delta EXCEPT ![lo + 1] = as_i16(r.val)]]])
    ELSE Let([mid \in {(lo + hi) \div 2} |->
             read_transition_delta(read_transition_delta(s, lo, mid), mid, hi)])

\* ConfigRecord::parse_config_record.  The Ok result also carries `decoded`, the
\* integers as the range coder returned them, before the casts.  A value of ur
\* is kept in its i32 reading: a negative one stands for 2^32 more.
parse_config_record(buf, width, height) ==
    LET Invalid(reason) == Err("InvalidConfiguration", reason)
        Dead == Panic("parse_config_record")
    IN
    IF ~CrcIsZero(crc32_mpeg2(buf))
    THEN Invalid(<<"failed CRC check for configuration record">>)
    ELSE
    Let([coder \in {RangeCoder_new(buf)} |->
    Let([state \in {Repeat(128, CONTEXT_SIZE)} |->
    Let([ver \in {ur(coder, state)} |->
    Let([version \in {as_u8(ver.val)} |->
    IF ver.c.panic THEN Dead
    ELSE IF version # 3 THEN Invalid(<<"only FFV1 version 3 is supported">>)
    ELSE
    Let([mic \in {ur(ver.c, ver.state)} |->
    Let([micro_version \in {as_u8(mic.val)} |->
    IF mic.c.panic THEN Dead
    ELSE IF micro_version < 1 THEN Invalid(<<"only FFV1 micro version >1 supported">>)
    ELSE
    Let([cod \in {ur(mic.c, mic.state)} |->
    Let([coder_type \in {as_u8(cod.val)} |->
    IF cod.c.panic THEN Dead
    ELSE IF coder_type > 2 THEN Invalid(<<"invalid coder_type: ", ToString(coder_type)>>)
    ELSE
    Let([std0 \in {[c |-> cod.c, state |-> cod.state, delta |-> ZeroTable]} |->
    Let([std \in {IF coder_type > 1 THEN read_transition_delta(std0, 1, 256) ELSE std0} |->
    Let([col \in {ur(std.c, std.state)} |->
    Let([colorspace_type \in {as_u8(col.val)} |->
    IF col.c.panic THEN Dead
    ELSE IF colorspace_type > 1
    THEN Invalid(<<"invalid colorspace_type: ", ToString(colorspace_type)>>)
    ELSE
    Let([bit \in {ur(col.c, col.state)} |->
    Let([bits_per_raw_sample \in {IF as_u8(bit.val) = 0 THEN 8 ELSE as_u8(bit.val)} |->
    IF bit.c.panic THEN Dead
    ELSE IF coder_type = 0 /\ bits_per_raw_sample # 8
    THEN Invalid(<<"golomb-rice mode cannot have >8bit per sample">>)
    ELSE
    Let([chr \in {br(bit.c, bit.state)} |->
    IF chr.c.panic THEN Dead
    ELSE IF colorspace_type = 1 /\ ~chr.bit THEN Invalid(<<"RGB must contain chroma planes">>)
    ELSE
    Let([lh \in {ur(chr.c, chr.state)} |->
    Let([log2_h_chroma_subsample \in {as_u8(lh.val)} |->
    IF lh.c.panic THEN Dead
    ELSE IF colorspace_type = 1 /\ log2_h_chroma_subsample # 0
    THEN Invalid(<<"RGB cannot be subsampled">>)
    ELSE
    Let([lv \in {ur(lh.c, lh.state)} |->
    Let([log2_v_chroma_subsample \in {as_u8(lv.val)} |->
    IF lv.c.panic THEN Dead
    ELSE IF colorspace_type = 1 /\ log2_v_chroma_subsample # 0
    THEN Invalid(<<"RGB cannot be subsampled">>)
    ELSE
    Let([ext \in {br(lv.c, lv.state)} |->
    Let([nh \in {ur(ext.c, ext.state)} |->
    Let([nv \in {ur(nh.c, nh.state)} |->
    Let([qc \in {ur(nv.c, nv.state)} |->
    Let([quant_table_set_count \in {qc.val} |->
    IF qc.c.panic THEN Dead
    ELSE IF quant_table_set_count = 0
    THEN Invalid(<<"quant_table_set_count may not be zero">>)
    ELSE IF quant_table_set_count < 0 \/ quant_table_set_count > MAX_QUANT_TABLES
    THEN Invalid(<<"too many quant tables: ", ToString(quant_table_set_count),
                 " > ", ToString(MAX_QUANT_TABLES)>>)
    ELSE
    Let([qt \in {read_quant_sets(qc.c, 0, quant_table_set_count,
                                   Repeat(Repeat(ZeroTable, MAX_CONTEXT_INPUTS), MAX_QUANT_TABLES),
                                   Repeat(0, MAX_QUANT_TABLES))} |->
    Let([isd \in {read_initial_state_delta(qt.c, qc.state, 0, quant_table_set_count,
                                            qt.context_count, <<>>)} |->
    Let([ist \in {initial_states_from(isd.delta)} |->
    Let([ec \in {ur(isd.c, isd.state)} |->
    Let([intra \in {ur(ec.c, ec.state)} |->
    IF intra.c.panic \/ ist.panic THEN Dead
    ELSE [tag |-> "Ok",
          val |-> [version                 |-> version,
                   micro_version           |-> micro_version,
                   coder_type              |-> coder_type,
                   state_transition_delta  |-> std.delta,
                   colorspace_type         |-> colorspace_type,
                   bits_per_raw_sample     |-> bits_per_raw_sample,
                   chroma_planes           |-> chr.bit,
                   log2_h_chroma_subsample |-> log2_h_chroma_subsample,
                   log2_v_chroma_subsample |-> log2_v_chroma_subsample,
                   extra_plane             |-> ext.bit,
                   num_h_slices_minus1     |-> as_u8(nh.val),
                   num_v_slices_minus1     |-> as_u8(nv.val),
                   quant_table_set_count   |-> quant_table_set_count,
                   context_count           |-> qt.context_count,
                   quant_tables            |-> qt.quant_tables,
                   states_coded            |-> FALSE,
                   initial_state_delta     |-> isd.delta,
                   initial_states          |-> ist.states,
                   ec                      |-> as_u8(ec.val),
                   intra                   |-> as_u8(intra.val),
                   width                   |-> width,
                   height                  |-> height],
          decoded |-> [version                 |-> ver.val,
                       micro_version           |-> mic.val,
                       coder_type              |-> cod.val,
                       colorspace_type         |-> col.val,
                       bits_per_raw_sample     |-> bit.val,
                       chroma_planes           |-> chr.bit,
                       log2_h_chroma_subsample |-> lh.val,
                       log2_v_chroma_subsample |-> lv.val,
                       quant_table_set_count   |-> qc.val,
                       ec                      |-> ec.val]]])])])])])])])])])])])])])])])])])])])])])])])])])])])])])

(***************************************************************************)
(* Slices and footers (src/src/slice.rs).                                  *)
(***************************************************************************)
\* impl Default for SliceHeader, Slice
DefaultSliceHeader ==
    [slice_width_minus1 |-> 0, slice_height_minus1 |-> 0, slice_x |-> 0, slice_y |-> 0,
     quant_table_set_index |-> <<>>, picture_structure |-> 0, sar_num |-> 0, sar_den |-> 0]

DefaultSlice ==
    [header |-> DefaultSliceHeader, state |-> <<>>, golomb_state |-> <<>>, planes |-> <<>>]

\* is_keyframe: a range coder over the whole packet, one bit with state 128
is_keyframe(buf) ==
    Let([g \in {br(RangeCoder_new(buf), Repeat(128, CONTEXT_SIZE))} |->
        IF g.c.panic THEN Panic("is_keyframe") ELSE Ok(g.bit)])

Reverse(s) == [i \in 1..Len(s) |-> s[Len(s) + 1 - i]]

\* the loop of count_slices.  end_pos - footer_size and end_pos - size - footer_size
\* are unchecked usize subtractions: below zero they panic in the checking build and
\* wrap to an index far past the buffer in the other, whose next use is an
\* out-of-bounds index; buf[end_pos - footer_size + 3] is read whatever ec is.
RECURSIVE scan_footers(_, _, _, _)
scan_footers(buf, footer_size, end_pos, slice_info) ==
    IF end_pos = 0 THEN Ok(Reverse(slice_info))
    ELSE Let([at \in {end_pos - footer_size} |->
             IF at < 0 THEN Panic("end_pos - footer_size")
             ELSE IF ~InBounds(buf, at + 3) THEN Panic("buf[end_pos - footer_size + 3]")
             ELSE
         Let([size \in {At(buf, at) * 65536 + At(buf, at + 1) * 256 + At(buf, at + 2)} |->
         Let([pos \in {end_pos - size - footer_size} |->
             IF pos < 0 THEN Panic("end_pos - info.size - footer_size")
             ELSE scan_footers(buf, footer_size, pos,
                               Append(slice_info, [pos |-> pos, size |-> size,
                                                   error_status |-> At(buf, at + 3)]))])])])

\* count_slices
count_slices(buf, ec) == scan_footers(buf, IF ec THEN 8 ELSE 3, Len(buf), <<>>)

(***************************************************************************)
(* BitReader (src/src/golombcoder/bitreader.rs).  bit_buf is the pair      *)
(* <<high half, low half>> of the u32.                                     *)
(***************************************************************************)
BitReader_new(buf) ==
    [buf |-> buf, pos |-> 0, bit_buf |-> <<0, 0>>, bits_in_buf |-> 0, panic |-> FALSE]

\* bit_buf <<= 8; bit_buf |= byte
ShiftIn(bit_buf, byte) ==
    <<(bit_buf[1] * 256 + (bit_buf[2] \div 256)) % 65536, ((bit_buf[2] * 256) % 65536) + byte>>

\* (bit_buf >> n) & ((1 << count) - 1) for count < 32 and n < 32
BitsOf(bit_buf, n, count) ==
    IF n >= 16 THEN (bit_buf[1] \div 2^(n - 16)) % 2^count
    ELSE Let([low \in {bit_buf[2] \div 2^n} |->
             IF count > 16 - n
             THEN (bit_buf[1] % 2^(count - (16 - n))) * 2^(16 - n) + low
             ELSE low % 2^count])

\* the while loop of BitReader::u: r, and split when the 16 + (count - 16) path is taken
RECURSIVE fill_bits(_, _)
fill_bits(r, count) ==
    IF r.panic \/ count <= r.bits_in_buf THEN [r |-> r, split |-> FALSE]
    ELSE IF ~InBounds(r.buf, r.pos) THEN [r |-> [r EXCEPT !.panic = TRUE], split |-> FALSE]
    ELSE Let([r1 \in {[r EXCEPT !.bit_buf = ShiftIn(r.bit_buf, At(r.buf, r.pos)),
                             !.bits_in_buf = r.bits_in_buf + 8,
                             !.pos = r.pos + 1]} |->
             IF r1.bits_in_buf > 24
             THEN IF count <= r1.bits_in_buf THEN [r |-> r1, split |-> FALSE]
                  ELSE [r |-> r1, split |-> TRUE]
             ELSE fill_bits(r1, count)])

\* BitReader::u without the split path: count bits once they are in bit_buf.
\* (1 << 32) - 1 overflows the shift: a panic, or the mask 0 in the wrapping build.
take_bits(r, count) ==
    Let([left \in {r.bits_in_buf - count} |->
        IF r.panic THEN [r |-> r, val |-> 0]
        ELSE IF count = 32
        THEN [r |-> [r EXCEPT !.bits_in_buf = left, !.panic = overflow_checks], val |-> 0]
        ELSE [r |-> [r EXCEPT !.bits_in_buf = left], val |-> BitsOf(r.bit_buf, left, count)]])

\* BitReader::u; the value is the u32 in its i32 reading
RECURSIVE u(_, _)
u(r, count) ==
    IF r.panic THEN [r |-> r, val |-> 0]
    ELSE IF count > 32 THEN [r |-> [r EXCEPT !.panic = TRUE], val |-> 0]
    ELSE Let([f \in {fill_bits(r, count)} |->
             IF f.split
             THEN Let([hi \in {u(f.r, 16)} |->
                  Let([lo \in {u(hi.r, count - 16)} |->
                      \* u(16) << 16 | u(count - 16)
                  Let([top \in {IF hi.val >= 32768 THEN hi.val - 65536 ELSE hi.val} |->
                      [r |-> lo.r, val |-> top * 65536 + lo.val]])])])
             ELSE take_bits(f.r, count)])

(***************************************************************************)
(* Golomb-Rice coder (src/src/golombcoder/golomb.rs).                      *)
(***************************************************************************)
\* LOG2_RUN (crate::golombcoder::tables, whose file is not among the sources):
\* the log2_run table of the FFV1 specification
LOG2_RUN ==
    << 0,  0,  0,  0,  1,  1,  1,  1,  2,  2,  2,  2,  3,  3,  3,  3,
       4,  4,  5,  5,  6,  6,  7,  7,  8,  9, 10, 11, 12, 13, 14, 15,
      16, 17, 18, 19, 20, 21, 22, 23, 24 >>

\* impl Default for State
DefaultGolombState == [drift |-> 0, error_sum |-> 4, bias |-> 0, count |-> 1]

\* n wrapped into i32
Wrap32(n) ==
    IF n > MaxI32 THEN n - MaxI32 - MaxI32 - 2
    ELSE IF n < -MaxI32 - 1 THEN n + MaxI32 + MaxI32 + 2
    ELSE n

\* sign_extend: n as i8 for 8 bits, else (n << (32 - bits)) >> (32 - bits) on i32
sign_extend(n, bits) ==
    IF bits = 8 THEN ((n + 128) % 256) - 128
    ELSE Let([sh \in {(32 - bits) % 32} |->
         Let([w \in {32 - sh} |->
             IF w = 32 THEN n ELSE ((n + 2^(w - 1)) % 2^w) - 2^(w - 1)])])

\* whether 32 - bits panics (bits is a usize: 32 - bits below 0 is a subtraction
\* overflow, 32 is too wide a shift); the wrapping build shifts by (32 - bits) % 32
sign_extend_panics(bits) == overflow_checks /\ bits # 8 /\ (bits > 32 \/ bits = 0)

\* (n << k) as i32 for 0 <= n < 16 and k < 32: the bits shifted out are lost
ShiftLeft32(n, k) ==
    IF k <= 27 THEN n * 2^k
    ELSE Let([m \in {n % 2^(32 - k)} |->
             IF m >= 2^(31 - k) THEN (m - 2^(32 - k)) * 2^k ELSE m * 2^k])

Golomb_new(buf) ==
    [r |-> BitReader_new(buf), run_mode |-> 0, run_count |-> 0, run_index |-> 0,
     x |-> 0, w |-> 0, panic |-> FALSE]

new_plane(g, width) == [g EXCEPT !.w = width, !.run_index = 0]

new_run(g) == [g EXCEPT !.run_mode = 0, !.run_count = 0]

\* a new line that resets x and leaves the run alone
new_line_keeping_run(g) == [g EXCEPT !.x = 0]

new_line(g) == [new_run(g) EXCEPT !.x = 0]

\* the reader after a read, the coder's panic flag following the reader's
WithReader(g, r) == [g EXCEPT !.r = r, !.panic = g.panic \/ r.panic]

\* for prefix in 0..12 { if r.u(1) == 1 { return r.u(k) + (prefix << k) } }; r.u(bits) + 11
RECURSIVE get_ur_golomb_from(_, _, _, _)
get_ur_golomb_from(g, k, bits, prefix) ==
    IF g.panic THEN [g |-> g, val |-> 0]
    ELSE IF prefix >= 12
    THEN Let([e \in {u(g.r, bits)} |->
             [g |-> WithReader(g, e.r), val |-> e.val + 11]])
    ELSE Let([b \in {u(g.r, 1)} |->
             IF b.r.panic THEN [g |-> WithReader(g, b.r), val |-> 0]
             ELSE IF b.val = 1
             THEN Let([m \in {u(b.r, k)} |->
                      [g |-> WithReader(g, m.r), val |-> m.val + ShiftLeft32(prefix, k)]])
             ELSE get_ur_golomb_from(WithReader(g, b.r), k, bits, prefix + 1)])

get_ur_golomb(g, k, bits) == get_ur_golomb_from(g, k, bits, 0)

\* get_sr_golomb
get_sr_golomb(g, k, bits) ==
    Let([r \in {get_ur_golomb(g, k, bits)} |->
        [g |-> r.g, val |-> IF r.val % 2 = 1 THEN -(r.val \div 2) - 1 ELSE r.val \div 2]])

\* while i < state.error_sum { k += 1; i += i }: k, or -1 when i += i leaves i32
\* (a panic, or in the wrapping build a loop that does not end)
RECURSIVE vlc_k(_, _, _)
vlc_k(i, error_sum, k) ==
    IF i >= error_sum THEN k
    ELSE IF i <= 0 \/ i > MaxI32 \div 2 THEN -1
    ELSE vlc_k(i + i, error_sum, k + 1)

\* get_vlc_symbol: the coder, the state, the value
get_vlc_symbol(g, state, bits) ==
    Let([k \in {vlc_k(state.count, state.error_sum, 0)} |->
    Let([r \in {get_sr_golomb(g, k, bits)} |->
    Let([v \in {IF 2 * state.drift < -state.count THEN -1 - r.val ELSE r.val} |->
    Let([ret \in {sign_extend(v + state.bias, bits)} |->
    Let([s1 \in {[state EXCEPT !.error_sum = state.error_sum + abs32(v),
                              !.drift = state.drift + v]} |->
    Let([s2 \in {IF s1.count = 128
                THEN [s1 EXCEPT !.count = 64, !.drift = s1.drift \div 2,
                                !.error_sum = s1.error_sum \div 2]
                ELSE s1} |->
    Let([s3 \in {[s2 EXCEPT !.count = s2.count + 1]} |->
    Let([s4 \in {IF s3.drift <= -s3.count
                THEN [s3 EXCEPT !.bias = max32(s3.bias - 1, -128),
                                !.drift = max32(s3.drift + s3.count, -s3.count + 1)]
                ELSE IF s3.drift > 0
                THEN [s3 EXCEPT !.bias = min32(s3.bias + 1, 127),
                                !.drift = min32(s3.drift - s3.count, 0)]
                ELSE s3} |->
        IF g.panic THEN [g |-> g, state |-> state, val |-> 0]
        ELSE IF k < 0 THEN [g |-> [g EXCEPT !.panic = TRUE], state |-> state, val |-> 0]
        ELSE IF r.g.panic \/ sign_extend_panics(bits)
        THEN [g |-> [r.g EXCEPT !.panic = TRUE], state |-> state, val |-> 0]
        ELSE [g |-> r.g, state |-> s4, val |-> ret]])])])])])])])])

\* the run-length part of Coder::sg, taken when run_count = 0 and run_mode = 1
sg_run_length(g) ==
    Let([b \in {u(g.r, 1)} |->
    Let([g1 \in {WithReader(g, b.r)} |->
    Let([log \in {At(LOG2_RUN, g.run_index)} |->
        IF ~InBounds(LOG2_RUN, g.run_index) \/ g1.panic THEN [g1 EXCEPT !.panic = TRUE]
        ELSE IF b.val = 1
        THEN [g1 EXCEPT !.run_count = 2^log,
                        !.run_index = IF g.x + 2^log <= g.w THEN g.run_index + 1
                                      ELSE g.run_index]
        ELSE Let([n \in {IF log # 0 THEN u(b.r, log) ELSE [r |-> b.r, val |-> 0]} |->
                 [WithReader(g, n.r) EXCEPT
                      !.run_count = n.val,
                      !.run_index = IF g.run_index # 0 THEN g.run_index - 1 ELSE 0,
                      !.run_mode = 2]])])])])

\* Coder::sg: the coder, the state, the value
sg(g, context, state, bits) ==
    Let([g1 \in {IF context = 0 /\ g.run_mode = 0 THEN [g EXCEPT !.run_mode = 1] ELSE g} |->
    Let([g2 \in {IF g1.run_count = 0 /\ g1.run_mode = 1 THEN sg_run_length(g1) ELSE g1} |->
    Let([g3 \in {[g2 EXCEPT !.run_count = g2.run_count - 1]} |->
    Let([v \in {get_vlc_symbol(new_run(g3), state, bits)} |->
    Let([d \in {get_vlc_symbol([g1 EXCEPT !.x = g1.x + 1], state, bits)} |->
        IF g.panic THEN [g |-> g, state |-> state, val |-> 0]
        ELSE IF g1.run_mode # 0
        THEN IF g2.panic THEN [g |-> g2, state |-> state, val |-> 0]
             ELSE IF g3.run_count < 0
             THEN [g |-> [v.g EXCEPT !.x = v.g.x + 1], state |-> v.state,
                   val |-> IF v.val >= 0 THEN v.val + 1 ELSE v.val]
             ELSE [g |-> [g3 EXCEPT !.x = g3.x + 1], state |-> state, val |-> 0]
        ELSE d])])])])])

(***************************************************************************)
(* Prediction (src/src/pred.rs).  plane is the buffer from the plane's     *)
(* offset on; an index outside it panics.                                  *)
(***************************************************************************)
\* the indices derive_borders reads for (x, y)
border_reads(x, y, width, stride) ==
    Let([pos \in {y * stride + x} |->
        (IF y > 1 THEN {pos - 2 * stride} ELSE {})
        \cup (IF y > 0 /\ x = 1 THEN {pos - stride - 1} ELSE IF x > 1 THEN {pos - 2} ELSE {})
        \cup (IF y > 0 /\ x > 0 THEN {pos - stride - 1} ELSE {})
        \cup (IF y > 0 THEN {pos - stride, pos - stride + min32(1, width - 1 - x)} ELSE {})
        \cup (IF x > 0 THEN {pos - 1} ELSE {})])

\* borders whose first column has no left neighbour at all (l = 0, tl = 0)
derive_borders_bare_column(plane, x, y, width, height, stride) ==
    Let([pos \in {y * stride + x} |->
        [T  |-> IF y > 1 THEN At(plane, pos - 2 * stride) ELSE 0,
         L  |-> IF y > 0 /\ x = 1 THEN At(plane, pos - stride - 1)
                ELSE IF x > 1 THEN At(plane, pos - 2) ELSE 0,
         t  |-> IF y > 0 THEN At(plane, pos - stride) ELSE 0,
         l  |-> IF x > 0 THEN At(plane, pos - 1) ELSE 0,
         tl |-> IF y > 0 /\ x > 0 THEN At(plane, pos - stride - 1) ELSE 0,
         tr |-> IF y > 0 THEN At(plane, pos - stride + min32(1, width - 1 - x)) ELSE 0]])

\* derive_borders: (T, L, t, l, tr, tl)
derive_borders(plane, x, y, width, height, stride) ==
    Let([pos \in {y * stride + x} |->
        [T  |-> IF y > 1 THEN At(plane, pos - 2 * stride) ELSE 0,
         L  |-> IF y > 0 /\ x = 1 THEN At(plane, pos - stride - 1)
                ELSE IF x > 1 THEN At(plane, pos - 2) ELSE 0,
         t  |-> IF y > 0 THEN At(plane, pos - stride) ELSE 0,
         l  |-> IF x > 0 THEN At(plane, pos - 1)
                ELSE IF y > 0 THEN At(plane, pos - stride) ELSE 0,
         tl |-> IF y > 1 /\ x = 0 THEN At(plane, pos - 2 * stride)
                ELSE IF y > 0 /\ x > 0 THEN At(plane, pos - stride - 1) ELSE 0,
         tr |-> IF y > 0 THEN At(plane, pos - stride + min32(1, width - 1 - x)) ELSE 0]])

\* get_context
get_context(quant_tables, n) ==
    At(quant_tables[1], (n.l - n.tl) % 256)
        + At(quant_tables[2], (n.tl - n.t) % 256)
        + At(quant_tables[3], (n.t - n.tr) % 256)
        + At(quant_tables[4], (n.L - n.l) % 256)
        + At(quant_tables[5], (n.T - n.t) % 256)

\* the least of the three in place of their median
get_median_least(a, b, c) == min32(a, min32(b, c))

\* get_median
get_median(a, b, c) == a + b + c - min32(a, min32(b, c)) - max32(a, max32(b, c))

(***************************************************************************)
(* u32 arithmetic.  A u32 is kept in its i32 reading (a negative value     *)
(* stands for 2^32 more); each operation gives the wrapped value and       *)
(* whether the checking build panics on it.                                *)
(***************************************************************************)
ToHalves(a) == <<(a \div 65536) % 65536, a % 65536>>

FromHalves(h) == (IF h[1] >= 32768 THEN h[1] - 65536 ELSE h[1]) * 65536 + h[2]

\* a < b on u32
ULess(a, b) ==
    Let([x \in {ToHalves(a)} |->
    Let([y \in {ToHalves(b)} |->
        x[1] < y[1] \/ (x[1] = y[1] /\ x[2] < y[2])])])

U32Add(a, b) ==
    Let([x \in {ToHalves(a)} |->
    Let([y \in {ToHalves(b)} |->
    Let([lo \in {x[2] + y[2]} |->
    Let([hi \in {x[1] + y[1] + (lo \div 65536)} |->
        [val |-> FromHalves(<<hi % 65536, lo % 65536>>),
         panic |-> overflow_checks /\ hi >= 65536]])])])])

U32Sub(a, b) ==
    Let([x \in {ToHalves(a)} |->
    Let([y \in {ToHalves(b)} |->
    Let([lo \in {x[2] - y[2]} |->
    Let([hi \in {x[1] - y[1] - (IF lo < 0 THEN 1 ELSE 0)} |->
        [val |-> FromHalves(<<hi % 65536, lo % 65536>>),
         panic |-> overflow_checks /\ hi < 0]])])])])

U32Mul(a, b) ==
    Let([x \in {ToHalves(a)} |->
    Let([y \in {ToHalves(b)} |->
    Let([hl \in {U16Mul(x[1], y[2])} |->
    Let([lh \in {U16Mul(x[2], y[1])} |->
    Let([ll \in {U16Mul(x[2], y[2])} |->
    Let([mid \in {hl[2] + lh[2] + ll[1]} |->
        [val |-> FromHalves(<<mid % 65536, ll[2]>>),
         panic |-> overflow_checks
                   /\ ((x[1] # 0 /\ y[1] # 0) \/ hl[1] # 0 \/ lh[1] # 0 \/ mid >= 65536)]])])])])])])

\* a / d on u32 for 1 <= d <= 256
U32Div(a, d) ==
    Let([x \in {ToHalves(a)} |->
    Let([r \in {x[1] % d} |->
        FromHalves(<<x[1] \div d, (r * 65536 + x[2]) \div d>>)])])

\* a >> n on u32 for n < 32
U32Shr(a, n) ==
    IF a >= 0 \/ n = 0 THEN a \div 2^n
    ELSE ((a \div 2^n) + 2^(31 - n)) + 2^(31 - n)

\* a shr n with n a u8: a shift of 32 or more panics, or takes n % 32 when wrapping
ShiftRight(a, n) ==
    [val |-> U32Shr(a, n % 32), panic |-> overflow_checks /\ n >= 32]

\* (a as f64 / (1 << n) as f64).ceil() as u32 with 1 an i32 and n a u8: 1 << 31 is
\* negative, the quotient is then not above 0 and the cast gives 0
CeilShift(a, n) ==
    Let([k \in {n % 32} |->
    Let([down \in {U32Shr(a, k)} |->
        [val |-> IF k = 31 THEN 0
                 ELSE IF a % 2^k # 0 THEN U32Add(down, 1).val ELSE down,
         panic |-> overflow_checks /\ n >= 32]])])

(***************************************************************************)
(* Decoder (src/src/decoder.rs).                                           *)
(***************************************************************************)
\* Decoder::initialize_states: state_transition[i] =
\* (DEFAULT_STATE_TRANSITION[i] as i16 + state_transition_delta[i]) as u8 for i in 1..256
initialize_states(dec) ==
    LET sum(i) == At(DEFAULT_STATE_TRANSITION, i) + At(dec.record.state_transition_delta, i)
    IN  [dec |-> [dec EXCEPT !.state_transition =
                      [i \in 1..256 |-> IF i = 1 THEN 0 ELSE as_u8(sum(i - 1))]],
         panic |-> overflow_checks /\ \E i \in 1..255 : sum(i) > 32767 \/ sum(i) < -32768]

\* Decoder::new
Decoder_new(record, width, height) ==
    IF width = 0 \/ height = 0
    THEN Err("InvalidInputData",
             <<"invalid dimensions: ", ToString(width), "x", ToString(height)>>)
    ELSE IF Len(record) = 0
    THEN Err("InvalidInputData", <<"invalid record with length zero">>)
    ELSE Let([parsed \in {parse_config_record(record, width, height)} |->
             IF parsed.tag = "Panic" THEN parsed
             ELSE IF parsed.tag = "Err"
             THEN Err("InvalidInputData",
                      <<"invalid v3 configuration record: ">> \o Display(parsed))
             ELSE Let([init \in {initialize_states(
                               [record |-> parsed.val,
                                state_transition |-> Repeat(0, 256),
                                current_frame |-> [keyframe |-> FALSE, slice_info |-> <<>>,
                                                   slices |-> <<>>]])} |->
                      IF init.panic THEN Panic("initialize_states")
                      ELSE Ok(init.dec)])])

\* parse_footers that starts every slice anew (what C2's formula is shown to tell apart)
parse_footers_anew(dec, buf) ==
    Let([counted \in {count_slices(buf, dec.record.ec # 0)} |->
        IF counted.tag # "Ok" THEN [res |-> counted, dec |-> dec]
        ELSE
    Let([dec1 \in {[dec EXCEPT !.current_frame.slice_info = counted.val]} |->
        IF ~dec.current_frame.keyframe
                /\ Len(counted.val) # Len(dec.current_frame.slices)
        THEN [res |-> Err("SliceError",
                          <<"inter frames must have the same number of slices as the preceding intra frame">>),
              dec |-> dec1]
        ELSE [res |-> Ok(<<>>),
              dec |-> [dec1 EXCEPT !.current_frame.slices =
                          [i \in 1..Len(counted.val) |-> DefaultSlice]]]])])

\* parse_footers that holds keyframes to the slice count too (what C4's formula is
\* shown to tell apart)
parse_footers_strict(dec, buf) ==
    Let([counted \in {count_slices(buf, dec.record.ec # 0)} |->
        IF counted.tag # "Ok" THEN [res |-> counted, dec |-> dec]
        ELSE
    Let([dec1 \in {[dec EXCEPT !.current_frame.slice_info = counted.val]} |->
        IF Len(counted.val) # Len(dec.current_frame.slices)
        THEN [res |-> Err("SliceError",
                          <<"inter frames must have the same number of slices as the preceding intra frame">>),
              dec |-> dec1]
        ELSE [res |-> Ok(<<>>),
              dec |-> [dec1 EXCEPT !.current_frame.slices =
                          [i \in 1..Len(counted.val) |-> DefaultSlice]]]])])

\* parse_footers that does not compare slice counts (what C5's formula is shown to
\* tell apart)
parse_footers_lenient(dec, buf) ==
    Let([counted \in {count_slices(buf, dec.record.ec # 0)} |->
    Let([current \in {dec.current_frame.slices} |->
        IF counted.tag # "Ok" THEN [res |-> counted, dec |-> dec]
        ELSE [res |-> Ok(<<>>),
              dec |-> [dec EXCEPT
                          !.current_frame.slice_info = counted.val,
                          !.current_frame.slices =
                              [i \in 1..Len(counted.val) |->
                                  IF dec.current_frame.keyframe \/ i > Len(current)
                                  THEN DefaultSlice
                                  ELSE [DefaultSlice EXCEPT
                                           !.state = current[i].state,
                                           !.golomb_state = current[i].golomb_state]]]]])])

\* Decoder::parse_footers: the result and the decoder it leaves
parse_footers(dec, buf) ==
    Let([counted \in {count_slices(buf, dec.record.ec # 0)} |->
        IF counted.tag # "Ok" THEN [res |-> counted, dec |-> dec]
        ELSE
    Let([dec1 \in {[dec EXCEPT !.current_frame.slice_info = counted.val]} |->
    Let([current \in {dec.current_frame.slices} |->
    Let([n \in {Len(counted.val)} |->
        IF ~dec.current_frame.keyframe /\ n # Len(current)
        THEN [res |-> Err("SliceError",
                          <<"inter frames must have the same number of slices as the preceding intra frame">>),
              dec |-> dec1]
        ELSE
    Let([slices \in {[i \in 1..n |->
                       IF dec.current_frame.keyframe THEN DefaultSlice
                       ELSE [DefaultSlice EXCEPT
                                !.state = current[i].state,
                                !.golomb_state = IF dec.record.coder_type = 0
                                                 THEN current[i].golomb_state ELSE <<>>]]} |->
        [res |-> Ok(<<>>), dec |-> [dec1 EXCEPT !.current_frame.slices = slices]]])])])])])

\* reset_slice_states that resets nothing (what C3's formula is shown to tell apart)
reset_slice_states_none(current_slice, record) == current_slice

\* Decoder::reset_slice_states
reset_slice_states(current_slice, record) ==
    [current_slice EXCEPT
        !.state = record.initial_states,
        !.golomb_state =
            IF record.coder_type = 0
            THEN [i \in 1..record.quant_table_set_count |->
                     Repeat(DefaultGolombState, record.context_count[i])]
            ELSE current_slice.golomb_state]

\* the header fields of parse_slice_header on s = [c, state, header]: the
\* quant_table_set_index entries from i on
RECURSIVE read_quant_index(_, _, _)
read_quant_index(s, i, count) ==
    IF s.c.panic \/ i >= count THEN s
    ELSE Let([r \in {ur(s.c, s.state)} |->
             read_quant_index(
                 [c |-> r.c, state |-> r.state,
                  header |-> [s.header EXCEPT !.quant_table_set_index[i + 1] = as_u8(r.val)]],
                 i + 1, count)])

\* Decoder::parse_slice_header, "Calculate boundaries" on: the planes it pushes for a
\* header, and whether the arithmetic panicked
slice_planes(header, record) ==
    Let([nh \in {record.num_h_slices_minus1 + 1} |->
    Let([nv \in {record.num_v_slices_minus1 + 1} |->
    Let([mx \in {U32Mul(header.slice_x, record.width)} |->
    Let([my \in {U32Mul(header.slice_y, record.height)} |->
    Let([start_x \in {U32Div(mx.val, nh)} |->
    Let([start_y \in {U32Div(my.val, nv)} |->
    Let([ex1 \in {U32Add(header.slice_x, header.slice_width_minus1)} |->
    Let([ex2 \in {U32Add(ex1.val, 1)} |->
    Let([ex3 \in {U32Mul(ex2.val, record.width)} |->
    Let([wd \in {U32Sub(U32Div(ex3.val, nh), start_x)} |->
    Let([ey1 \in {U32Add(header.slice_y, header.slice_height_minus1)} |->
    Let([ey2 \in {U32Add(ey1.val, 1)} |->
    Let([ey3 \in {U32Mul(ey2.val, record.height)} |->
    Let([ht \in {U32Sub(U32Div(ey3.val, nv), start_y)} |->
    Let([stride \in {record.width} |->
    Let([of1 \in {U32Mul(start_y, stride)} |->
    Let([of2 \in {U32Add(start_x, of1.val)} |->
    Let([full_plane \in {[start_x |-> start_x, start_y |-> start_y, width |-> wd.val,
                       height |-> ht.val, stride |-> stride, offset |-> of2.val, quant |-> 0]} |->
        \* the chroma plane: start_x is divided by 1 << log2_v, start_y by 1 << log2_h
    Let([cx \in {CeilShift(start_x, record.log2_v_chroma_subsample)} |->
    Let([cy \in {CeilShift(start_y, record.log2_h_chroma_subsample)} |->
    Let([cw \in {CeilShift(wd.val, record.log2_h_chroma_subsample)} |->
    Let([ch \in {CeilShift(ht.val, record.log2_v_chroma_subsample)} |->
    Let([cs \in {CeilShift(record.width, record.log2_h_chroma_subsample)} |->
    Let([co1 \in {U32Mul(cy.val, cs.val)} |->
    Let([co2 \in {U32Add(cx.val, co1.val)} |->
    Let([chroma_plane \in {[start_x |-> cx.val, start_y |-> cy.val, width |-> cw.val,
                         height |-> ch.val, stride |-> cs.val, offset |-> co2.val, quant |-> 1]} |->
        [planes |-> (IF record.extra_plane THEN <<[full_plane EXCEPT !.quant = 2]>> ELSE <<>>)
                    \o <<full_plane>>
                    \o (IF record.chroma_planes THEN <<chroma_plane, chroma_plane>> ELSE <<>>),
         panic  |-> \/ mx.panic \/ my.panic \/ ex1.panic \/ ex2.panic \/ ex3.panic \/ wd.panic
                    \/ ey1.panic \/ ey2.panic \/ ey3.panic \/ ht.panic \/ of1.panic \/ of2.panic
                    \/ (record.chroma_planes
                        /\ (cx.panic \/ cy.panic \/ cw.panic \/ ch.panic \/ cs.panic
                            \/ co1.panic \/ co2.panic))]
        ])])])])])])])])])])])])])])])])])])])])])])])])])])

\* Decoder::parse_slice_header: the slice, the coder, whether it panicked
parse_slice_header(current_slice, record, coder) ==
    Let([sx \in {ur(coder, Repeat(128, CONTEXT_SIZE))} |->
    Let([sy \in {ur(sx.c, sx.state)} |->
    Let([sw \in {ur(sy.c, sy.state)} |->
    Let([sh \in {ur(sw.c, sw.state)} |->
    Let([quant_table_set_index_count \in {
            1 + (IF record.chroma_planes THEN 1 ELSE 0) + (IF record.extra_plane THEN 1 ELSE 0)} |->
    Let([qi \in {read_quant_index(
                   [c |-> sh.c, state |-> sh.state,
                    header |-> [current_slice.header EXCEPT
                        !.slice_x = sx.val, !.slice_y = sy.val,
                        !.slice_width_minus1 = sw.val, !.slice_height_minus1 = sh.val,
                        !.quant_table_set_index = Repeat(0, quant_table_set_index_count)]],
                   0, quant_table_set_index_count)} |->
    Let([ps \in {ur(qi.c, qi.state)} |->
    Let([sn \in {ur(ps.c, ps.state)} |->
    Let([sd \in {ur(sn.c, sn.state)} |->
        IF sd.c.panic
        THEN [sl |-> current_slice, c |-> sd.c, panic |-> TRUE]
        ELSE
    Let([header \in {[qi.header EXCEPT !.picture_structure = as_u8(ps.val),
                                    !.sar_num = sn.val, !.sar_den = sd.val]} |->
    Let([layout \in {slice_planes(header, record)} |->
        [sl |-> [current_slice EXCEPT !.header = header,
                                      !.planes = current_slice.planes \o layout.planes],
         c |-> sd.c, panic |-> layout.panic]])])])])])])])])])])])

\* a u32 or usize taken as an index or a loop bound: every buffer of the model is far
\* shorter than 2^31, so a value of 2^31 or more acts as the largest index
ToIndex(v) == IF v < 0 THEN MaxI32 ELSE v

\* the pass of decode_line's loop for sample x.  s holds what the slice decoding
\* changes: [coder, state, golomb_state, bufs, panic]; e holds what a line is given:
\* [record, header, golomb, b, off, width, height, stride, yy, qt, mask_to]
\* (b the buffer of bufs, off the plane's offset in it, mask_to the width of T)
decode_sample(s, e, shift, quant_table, x) ==
    IF s.panic THEN s
    ELSE
    Let([plane \in {SliceFrom(s.bufs[e.b], e.off)} |->
    Let([reads_ok \in {\A i \in border_reads(x, e.yy, e.width, e.stride) : InBounds(plane, i)} |->
        IF ~reads_ok THEN [s EXCEPT !.panic = TRUE]
        ELSE
    Let([n \in {derive_borders(plane, x, e.yy, e.width, e.height, e.stride)} |->
    Let([c0 \in {get_context(quant_table, n)} |->
    Let([sign \in {c0 < 0} |->
    Let([context \in {IF sign THEN -c0 ELSE c0} |->
    Let([ctx_ok \in {IF e.golomb
                    THEN InBounds(s.golomb_state, e.qt)
                         /\ InBounds(At(s.golomb_state, e.qt), context)
                    ELSE InBounds(s.state, e.qt) /\ InBounds(At(s.state, e.qt), context)} |->
        IF ~ctx_ok THEN [s EXCEPT !.panic = TRUE]
        ELSE
    Let([r \in {IF e.golomb
                    THEN Let([v \in {sg(s.coder, context, s.golomb_state[e.qt + 1][context + 1],
                                     shift)} |->
                             [coder |-> v.g, state |-> s.state,
                              golomb_state |-> [s.golomb_state EXCEPT
                                                   ![e.qt + 1][context + 1] = v.state],
                              val |-> v.val]])
                    ELSE Let([v \in {sr(s.coder, s.state[e.qt + 1][context + 1])} |->
                             [coder |-> v.c,
                              state |-> [s.state EXCEPT ![e.qt + 1][context + 1] = v.state],
                              golomb_state |-> s.golomb_state,
                              val |-> v.val]])} |->
        \* diff = -diff overflows for the least i32
    Let([least \in {r.val = -MaxI32 - 1} |->
    Let([diff \in {IF sign /\ ~least THEN -r.val ELSE r.val} |->
    Let([wide \in {e.record.colorspace_type = 0 /\ e.record.bits_per_raw_sample = 16
                    /\ e.golomb} |->
    LET s16(v)   == IF v >= 32768 THEN v - 65536 ELSE v IN
    Let([med \in {IF wide
                    THEN get_median(s16(n.l), s16(n.t), s16(n.l) + s16(n.t) - s16(n.tl))
                    ELSE get_median(n.l, n.t, n.l + n.t - n.tl)} |->
        \* val += median on i32
    Let([add_over \in {(med >= 0 /\ diff > MaxI32 - med)
                    \/ (med < 0 /\ diff < (-MaxI32 - 1) - med)} |->
    Let([sum \in {IF add_over THEN U32Add(diff, med).val ELSE diff + med} |->
        \* val &= (1 << shift) - 1: 1 << 31 is the least i32, and less one overflows to
        \* the greatest
    Let([sh \in {shift % 32} |->
    Let([val \in {IF sh = 31 THEN (IF sum >= 0 THEN sum ELSE (sum + MaxI32) + 1)
                    ELSE sum % 2^sh} |->
    Let([at \in {e.yy * e.stride + x} |->
    Let([panic \in {~reads_ok \/ ~ctx_ok \/ r.coder.panic \/ ~InBounds(plane, at)
                    \/ (overflow_checks /\ ((sign /\ least) \/ add_over \/ shift >= 31))} |->
        IF panic
        THEN [s EXCEPT !.coder = r.coder, !.state = r.state,
                       !.golomb_state = r.golomb_state, !.panic = TRUE]
        ELSE [s EXCEPT !.coder = r.coder, !.state = r.state,
                       !.golomb_state = r.golomb_state,
                       !.bufs[e.b][e.off + at + 1] =
                           IF e.mask_to = 0 THEN val ELSE val % e.mask_to,
                       !.log = Append(@, <<s.which, e.b - 1, e.off + at>>)]])])])])])])])])])])])])])])])])])])

\* for x in 0..width
RECURSIVE decode_samples(_, _, _, _, _)
decode_samples(s, e, shift, quant_table, x) ==
    IF s.panic \/ x >= e.width THEN s
    ELSE decode_samples(decode_sample(s, e, shift, quant_table, x), e, shift, quant_table,
                        x + 1)

\* Decoder::decode_line, with the &mut buf[offset..] its caller passes
decode_line(s, e) ==
    Let([rgb \in {e.record.colorspace_type = 1} |->
    Let([bits \in {e.record.bits_per_raw_sample} |->
        \* record.bits_per_raw_sample + 1 on u8
    Let([shift \in {IF rgb THEN (bits + 1) % 256 ELSE bits} |->
    Let([index \in {e.header.quant_table_set_index} |->
    Let([qt_ok \in {InBounds(index, e.qt) /\ At(index, e.qt) < MAX_QUANT_TABLES} |->
        IF s.panic THEN s
        ELSE IF e.off > Len(s.bufs[e.b]) \/ ~qt_ok
                \/ (overflow_checks /\ rgb /\ bits = 255)
        THEN [s EXCEPT !.panic = TRUE]
        ELSE decode_samples(IF e.golomb THEN [s EXCEPT !.coder = new_line(s.coder)] ELSE s,
                            e, shift, e.record.quant_tables[At(index, e.qt) + 1], 0)])])])])])

\* what decode_line is given for line yy of a width x height area at off in buffer b
LineOf(sl, record, golomb, mask_to, b, off, width, height, stride, yy, qt) ==
    [record |-> record, header |-> sl.header, golomb |-> golomb, mask_to |-> mask_to,
     b |-> b, off |-> ToIndex(off), width |-> ToIndex(width), height |-> ToIndex(height),
     stride |-> ToIndex(stride), yy |-> yy, qt |-> qt]

\* a loop over lines of width 0 decodes nothing: its first pass stands for all
Lines(width, height) == IF width = 0 THEN min32(ToIndex(height), 1) ELSE ToIndex(height)

\* for y in 0..plane.height of decode_slice_content_yuv
RECURSIVE decode_plane_lines(_, _, _, _, _, _, _)
decode_plane_lines(s, sl, record, golomb, mask_to, p, y) ==
    Let([plane \in {sl.planes[p]} |->
        IF s.panic \/ y >= Lines(plane.width, plane.height) THEN s
        ELSE decode_plane_lines(
                 decode_line(s, LineOf(sl, record, golomb, mask_to, p, plane.offset,
                                       plane.width, plane.height, plane.stride, y,
                                       plane.quant)),
                 sl, record, golomb, mask_to, p, y + 1)])

\* for (plane, buf) in planes.iter().zip(buf.iter_mut()) of decode_slice_content_yuv
RECURSIVE decode_planes(_, _, _, _, _, _)
decode_planes(s, sl, record, golomb, mask_to, p) ==
    IF s.panic \/ p > Len(sl.planes) \/ p > Len(s.bufs) THEN s
    ELSE decode_planes(
             decode_plane_lines(
                 IF golomb THEN [s EXCEPT !.coder = new_plane(s.coder,
                                                              ToIndex(sl.planes[p].width))]
                 ELSE s,
                 sl, record, golomb, mask_to, p, 0),
             sl, record, golomb, mask_to, p + 1)

\* Decoder::decode_slice_content_yuv
decode_slice_content_yuv(s, sl, record, golomb, mask_to) ==
    decode_planes(s, sl, record, golomb, mask_to, 1)

\* for (plane, buf) in planes.iter().zip(buf.iter_mut()) of decode_slice_content_rct:
\* line y of every plane, all of them with the geometry of planes[0]
RECURSIVE decode_rct_planes(_, _, _, _, _, _, _)
decode_rct_planes(s, sl, record, golomb, mask_to, y, p) ==
    Let([first \in {sl.planes[1]} |->
        IF s.panic \/ p > Len(sl.planes) \/ p > Len(s.bufs) THEN s
        ELSE decode_rct_planes(
                 decode_line(s, LineOf(sl, record, golomb, mask_to, p, first.offset,
                                       first.width, first.height, first.stride, y,
                                       sl.planes[p].quant)),
                 sl, record, golomb, mask_to, y, p + 1)])

\* for y in 0..height of decode_slice_content_rct
RECURSIVE decode_rct_lines(_, _, _, _, _, _)
decode_rct_lines(s, sl, record, golomb, mask_to, y) ==
    IF s.panic \/ y >= Lines(sl.planes[1].width, sl.planes[1].height) THEN s
    ELSE decode_rct_lines(decode_rct_planes(s, sl, record, golomb, mask_to, y, 1),
                          sl, record, golomb, mask_to, y + 1)

\* Decoder::decode_slice_content_rct
decode_slice_content_rct(s, sl, record, golomb, mask_to) ==
    IF s.panic THEN s
    ELSE IF Len(sl.planes) = 0 THEN [s EXCEPT !.panic = TRUE]
    ELSE decode_rct_lines(
             IF golomb THEN [s EXCEPT !.coder = new_plane(s.coder,
                                                          ToIndex(sl.planes[1].width))]
             ELSE s,
             sl, record, golomb, mask_to, 0)

(***************************************************************************)
(* JPEG2000-RCT (src/src/jpeg2000rct.rs) on f = [buf, buf16, buf32, panic]. *)
(***************************************************************************)
\* a + b on i32: the wrapped sum and whether it overflowed
Add32(a, b) ==
    Let([over \in {(b >= 0 /\ a > MaxI32 - b) \/ (b < 0 /\ a < (-MaxI32 - 1) - b)} |->
        [val |-> IF over THEN U32Add(a, b).val ELSE a + b, over |-> over]])

\* one pass of the inner loop of an rct, or of the loop that copies the alpha plane
rct_pixel(f, variant, stride, offset, bits, y, x) ==
    Let([at \in {offset + y * stride + x} |->
    LET Has(planes, p) == p < Len(planes) /\ at < Len(planes[p + 1]) IN
    Let([src \in {IF variant \in {"u8", "alpha8"} THEN f.buf16
               ELSE IF variant = "inplace" THEN f.buf16 ELSE f.buf32} |->
    Let([dst \in {IF variant \in {"u8", "alpha8"} THEN f.buf ELSE f.buf16} |->
    Let([to \in {IF variant \in {"u8", "alpha8"} THEN 256 ELSE 65536} |->
    Let([y0 \in {IF Has(src, 0) THEN src[1][at + 1] ELSE 0} |->
    Let([cb \in {IF Has(src, 1) THEN src[2][at + 1] ELSE 0} |->
    Let([cr \in {IF Has(src, 2) THEN src[3][at + 1] ELSE 0} |->
        \* RCT<u16> for u8 and RCT<u32> for u16
    Let([Cbtmp \in {cb - (IF variant = "u8" THEN 256 ELSE 65536)} |->
    Let([Crtmp \in {cr - (IF variant = "u8" THEN 256 ELSE 65536)} |->
    Let([green \in {y0 - ((Cbtmp + Crtmp) \div 4)} |->
    Let([red \in {Crtmp + green} |->
    Let([blue \in {Cbtmp + green} |->
        \* RCT<u8> for u16, in place
    Let([Cbin \in {IF variant = "inplace" THEN (cb - 1) * 2^bits ELSE 0} |->
    Let([Crin \in {IF variant = "inplace" THEN (cr - 1) * 2^bits ELSE 0} |->
    Let([both \in {Add32(Cbin, Crin)} |->
    Let([bluein \in {y0 - (both.val \div 4)} |->
    Let([redin \in {Add32(Crin, bluein)} |->
    Let([greenin \in {Add32(Cbin, bluein)} |->
    LET Put(planes, g, b, r) ==
            [planes EXCEPT ![1][at + 1] = g % to, ![2][at + 1] = b % to, ![3][at + 1] = r % to] IN
    LET Wrote(which) == f.log \o <<<<which, 0, at>>, <<which, 1, at>>, <<which, 2, at>>>> IN
        IF f.panic THEN f
        ELSE IF variant \in {"alpha8", "alpha16"}
        THEN IF ~Has(src, 3) \/ ~Has(dst, 3) THEN [f EXCEPT !.panic = TRUE]
             ELSE IF variant = "alpha8"
             THEN [f EXCEPT !.buf[4][at + 1] = src[4][at + 1] % to,
                            !.log = Append(@, <<"buf", 3, at>>)]
             ELSE [f EXCEPT !.buf16[4][at + 1] = src[4][at + 1] % to,
                            !.log = Append(@, <<"buf16", 3, at>>)]
        ELSE IF ~Has(src, 0) \/ ~Has(src, 1) \/ ~Has(src, 2)
                \/ ~Has(dst, 0) \/ ~Has(dst, 1) \/ ~Has(dst, 2)
        THEN [f EXCEPT !.panic = TRUE]
        ELSE IF variant = "u8"
        THEN [f EXCEPT !.buf = Put(f.buf, green, blue, red), !.log = Wrote("buf")]
        ELSE IF variant = "u32"
        THEN [f EXCEPT !.buf16 = Put(f.buf16, green, blue, red), !.log = Wrote("buf16")]
        ELSE IF overflow_checks /\ (both.over \/ redin.over \/ greenin.over)
        THEN [f EXCEPT !.panic = TRUE]
        ELSE [f EXCEPT !.buf16 = Put(f.buf16, greenin.val, bluein, redin.val),
                       !.log = Wrote("buf16")]])])])])])])])])])])])])])])])])])])

\* for y in 0..height { for x in 0..width { .. } }
RECURSIVE rct_loop(_, _, _, _, _, _, _, _, _)
rct_loop(f, variant, width, height, stride, offset, bits, y, x) ==
    IF f.panic \/ width = 0 \/ y >= height THEN f
    ELSE IF x >= width
    THEN rct_loop(f, variant, width, height, stride, offset, bits, y + 1, 0)
    ELSE rct_loop(rct_pixel(f, variant, stride, offset, bits, y, x),
                  variant, width, height, stride, offset, bits, y, x + 1)

\* RCT::rct: "u8" is RCT<u16> for u8 (frame.buf from frame.buf16), "inplace" is
\* RCT<u8> for u16 (frame.buf16 in place), "u32" is RCT<u32> for u16 (frame.buf16
\* from frame.buf32).  The two that read src slice its first three planes at offset
\* before the loop, and copy a fourth plane when src has four.
rct(f, variant, width, height, stride, offset, bits) ==
    Let([src \in {IF variant = "u8" THEN f.buf16 ELSE f.buf32} |->
    Let([dst \in {IF variant = "u8" THEN f.buf ELSE f.buf16} |->
        IF f.panic THEN f
        ELSE IF variant # "inplace" /\ (Len(src) < 3 \/ \E p \in 1..3 : offset > Len(src[p]))
        THEN [f EXCEPT !.panic = TRUE]
        ELSE
    Let([main \in {rct_loop(f, variant, width, height, stride, offset, bits, 0, 0)} |->
        IF variant = "inplace" THEN main
        ELSE IF main.panic \/ Len(src) # 4 THEN main
        ELSE IF offset > Len(src[4]) \/ Len(dst) < 4 THEN [main EXCEPT !.panic = TRUE]
        ELSE IF offset > Len(dst[4]) THEN [main EXCEPT !.panic = TRUE]
        ELSE rct_loop(main, IF variant = "u8" THEN "alpha8" ELSE "alpha16",
                      width, height, stride, offset, bits, 0, 0)])])])

\* one of the decode_slice_content_* calls on one buffer set of the frame:
\* d = [coder, state, golomb_state, frame, panic, log]; log lists the writes made to
\* the frame, each <<buffer set, plane, index>>
content_on(d, sl, record, golomb, which, rgb) ==
    Let([bufs \in {IF which = "buf" THEN d.frame.buf
                ELSE IF which = "buf16" THEN d.frame.buf16 ELSE d.frame.buf32} |->
    Let([to \in {IF which = "buf" THEN 256 ELSE IF which = "buf16" THEN 65536 ELSE 0} |->
    Let([s \in {[coder |-> d.coder, state |-> d.state, golomb_state |-> d.golomb_state,
                 bufs |-> bufs, panic |-> d.panic, which |-> which, log |-> d.log]} |->
    Let([r \in {IF rgb THEN decode_slice_content_rct(s, sl, record, golomb, to)
                ELSE decode_slice_content_yuv(s, sl, record, golomb, to)} |->
        [coder |-> r.coder, state |-> r.state, golomb_state |-> r.golomb_state,
         frame |-> IF which = "buf" THEN [d.frame EXCEPT !.buf = r.bufs]
                   ELSE IF which = "buf16" THEN [d.frame EXCEPT !.buf16 = r.bufs]
                   ELSE [d.frame EXCEPT !.buf32 = r.bufs],
         panic |-> r.panic, log |-> r.log]])])])])

\* the RCT::rct call that follows decode_slice_content_rct
rct_after(d, sl, variant, bits) ==
    Let([first \in {sl.planes[1]} |->
    Let([f \in {rct([buf |-> d.frame.buf, buf16 |-> d.frame.buf16, buf32 |-> d.frame.buf32,
                  panic |-> d.panic, log |-> d.log],
                 variant, ToIndex(first.width), ToIndex(first.height),
                 ToIndex(first.stride), ToIndex(first.offset), bits)} |->
        IF d.panic THEN d
        ELSE [d EXCEPT !.frame.buf = f.buf, !.frame.buf16 = f.buf16, !.panic = f.panic,
                       !.log = f.log]])])

\* Decoder::decode_slice_content
decode_slice_content(d, sl, record, golomb) ==
    Let([bits \in {record.bits_per_raw_sample} |->
        IF record.colorspace_type # 1
        THEN IF bits = 8 THEN content_on(d, sl, record, golomb, "buf", FALSE)
             ELSE IF bits = 16 THEN content_on(d, sl, record, golomb, "buf16", FALSE)
             ELSE d
        ELSE IF Len(sl.planes) = 0 THEN [d EXCEPT !.panic = TRUE]
        ELSE IF bits = 8
        THEN rct_after(content_on(d, sl, record, golomb, "buf16", TRUE), sl, "u8", bits)
        ELSE IF bits >= 9 /\ bits <= 15 /\ ~record.extra_plane
        THEN rct_after(content_on(d, sl, record, golomb, "buf16", TRUE), sl, "inplace", bits)
        ELSE rct_after(content_on(d, sl, record, golomb, "buf32", TRUE), sl, "u32", bits)])

\* Decoder::decode_slice: the result, the decoder and the frame it leaves, whether
\* it got as far as building a coder over the slice, with the slice as it stood then
\* (after the state refresh, before the header is parsed), and the writes it made to
\* the frame
decode_slice(dec, buf, slicenum, frame) ==
    Let([slice_info \in {dec.current_frame.slice_info[slicenum + 1]} |->
    Let([current \in {dec.current_frame.slices[slicenum + 1]} |->
    Let([record \in {dec.record} |->
    Let([golomb \in {record.coder_type = 0} |->
        \* &buf[slice_info.pos..] and &slice_buf_first[..slice_info.size + 8]
    Let([start_ok \in {slice_info.pos <= Len(buf)} |->
    Let([first \in {SliceFrom(buf, slice_info.pos)} |->
    Let([end_ok \in {slice_info.size + 8 <= Len(first)} |->
    Let([sl0 \in {IF dec.current_frame.keyframe
                      THEN reset_slice_states(current, record) ELSE current} |->
    Let([c0 \in {RangeCoder_new(first)} |->
    Let([c1 \in {IF slicenum = 0 THEN br(c0, Repeat(128, CONTEXT_SIZE)).c ELSE c0} |->
    Let([c2 \in {IF record.coder_type = 2 THEN set_table(c1, dec.state_transition)
                      ELSE c1} |->
    Let([hd \in {parse_slice_header(sl0, record, c2)} |->
    Let([c3 \in {sentinal_end(hd.c)} |->
    Let([at \in {slice_info.pos + (get_pos(c3) - 1)} |->
    Let([coder \in {IF golomb THEN Golomb_new(SliceFrom(buf, at)) ELSE hd.c} |->
    Let([d \in {decode_slice_content(
                          [coder |-> coder, state |-> hd.sl.state,
                           golomb_state |-> hd.sl.golomb_state, frame |-> frame,
                           panic |-> FALSE, log |-> <<>>],
                          hd.sl, record, golomb)} |->
    Let([began \in {[slicenum |-> slicenum, state |-> sl0.state,
                       golomb_state |-> sl0.golomb_state, header |-> sl0.header,
                       planes |-> sl0.planes,
                       laid |-> [parsed |-> ~hd.panic,
                                 header |-> hd.sl.header, planes |-> hd.sl.planes,
                                 state |-> hd.sl.state,
                                 golomb_state |-> hd.sl.golomb_state]]} |->
    LET Stop(res)  == [res |-> res, dec |-> dec, frame |-> frame, began |-> <<>>,
                       writes |-> <<>>] IN
    LET Dead(msg)  == [res |-> Panic(msg), dec |-> dec, frame |-> frame, began |-> <<began>>,
                       writes |-> <<>>] IN
        IF record.ec = 1 /\ slice_info.error_status # 0
        THEN Stop(Err("SliceError", <<"error_status is non-zero: ",
                                      ToString(slice_info.error_status)>>))
        ELSE IF record.ec = 1 /\ (~start_ok \/ ~end_ok) THEN Stop(Panic("slice_buf"))
        ELSE IF record.ec = 1 /\ ~CrcIsZero(crc32_mpeg2(SubSeq(first, 1, slice_info.size + 8)))
        THEN Stop(Err("InvalidInputData", <<"CRC mismatch">>))
        ELSE IF ~start_ok THEN Dead("slice_buf")
        ELSE IF hd.panic THEN Dead("parse_slice_header")
        ELSE IF golomb /\ (c3.panic \/ at < 0 \/ at > Len(buf)) THEN Dead("golomb start")
        ELSE IF d.panic THEN Dead("decode_slice_content")
        ELSE [res |-> Ok(<<>>),
              dec |-> [dec EXCEPT !.current_frame.slices[slicenum + 1] =
                          [hd.sl EXCEPT !.state = d.state,
                                        !.golomb_state = d.golomb_state]],
              frame |-> d.frame,
              began |-> <<began>>,
              writes |-> d.log]])])])])])])])])])])])])])])])])])

\* the buffers decode_frame allocates for one of buf, buf16: None when the plane
\* index 3 is past the num_planes vectors
alloc_planes(record, num_planes, full_size, chroma_size) ==
    [p \in 1..num_planes |->
        IF p = 1 THEN Repeat(0, full_size)
        ELSE IF record.chroma_planes /\ p \in {2, 3} THEN Repeat(0, chroma_size)
        ELSE IF record.extra_plane /\ p = 4 THEN Repeat(0, full_size)
        ELSE <<>>]

\* for i in 0..self.current_frame.slices.len() of decode_frame:
\* t = [res, dec, frame, trace, writes], writes the writes of each decode_slice call
RECURSIVE decode_slices(_, _, _)
decode_slices(t, buf, i) ==
    IF t.res.tag # "Ok" \/ i >= Len(t.dec.current_frame.slices) THEN t
    ELSE Let([r \in {decode_slice(t.dec, buf, i, t.frame)} |->
             decode_slices(
                 [res   |-> IF r.res.tag = "Err"
                            THEN Err("SliceError",
                                     <<"slice ", ToString(i), " failed: ">> \o Display(r.res))
                            ELSE r.res,
                  dec   |-> r.dec,
                  frame |-> r.frame,
                  trace |-> t.trace \o r.began,
                  writes |-> Append(t.writes, r.writes)],
                 buf, i + 1)])

\* Decoder::decode_frame up to its slice loop: the frame it allocates, the keyframe
\* flag and the footers; res is Ok when the loop is reached
decode_frame_begin(dec, frame_input) ==
    Let([record \in {dec.record} |->
    Let([num_planes \in {1 + (IF record.chroma_planes THEN 2 ELSE 0)
                         + (IF record.extra_plane THEN 1 ELSE 0)} |->
    Let([full \in {U32Mul(record.width, record.height)} |->
    Let([chroma_w \in {ShiftRight(record.width, record.log2_h_chroma_subsample)} |->
    Let([chroma_h \in {ShiftRight(record.height, record.log2_v_chroma_subsample)} |->
    Let([chroma \in {U32Mul(chroma_w.val, chroma_h.val)} |->
    Let([bits \in {record.bits_per_raw_sample} |->
    Let([rgb \in {record.colorspace_type = 1} |->
    Let([has_buf \in {bits = 8} |->
    Let([has_buf16 \in {bits > 8 \/ rgb} |->
    Let([has_buf32 \in {bits = 16 /\ rgb} |->
        \* frame.buf[3] with three planes or fewer, frame.buf32[1] with one
    Let([alloc_panic \in {((has_buf \/ has_buf16) /\ record.extra_plane /\ num_planes < 4)
                       \/ (has_buf32 /\ num_planes < 3)} |->
    LET Stop(res, d) == [res |-> res, dec |-> d, frame |-> <<>>, trace |-> <<>>,
                         writes |-> <<>>] IN
        IF full.panic \/ chroma_w.panic \/ chroma_h.panic \/ chroma.panic \/ alloc_panic
        THEN Stop(Panic("allocation"), dec)
        ELSE
    Let([planes \in {alloc_planes(record, num_planes, ToIndex(full.val),
                                    ToIndex(chroma.val))} |->
    Let([frame \in {[buf   |-> IF has_buf THEN planes ELSE <<>>,
                        buf16 |-> IF has_buf16 THEN planes ELSE <<>>,
                        buf32 |-> IF has_buf32
                                  THEN [p \in 1..num_planes |->
                                           IF p <= 3 \/ record.extra_plane
                                           THEN Repeat(0, ToIndex(full.val)) ELSE <<>>]
                                  ELSE <<>>,
                        width |-> record.width, height |-> record.height,
                        bit_depth |-> bits, color_space |-> record.colorspace_type,
                        has_chroma |-> record.chroma_planes,
                        has_alpha |-> record.extra_plane,
                        chroma_subsample_v |-> IF record.chroma_planes
                                               THEN record.log2_v_chroma_subsample ELSE 0,
                        chroma_subsample_h |-> IF record.chroma_planes
                                               THEN record.log2_h_chroma_subsample ELSE 0]} |->
    Let([key \in {is_keyframe(frame_input)} |->
        IF key.tag = "Panic" THEN Stop(key, dec)
        ELSE
    Let([dec1 \in {[dec EXCEPT !.current_frame.keyframe = key.val]} |->
    Let([footers \in {parse_footers(dec1, frame_input)} |->
        IF footers.res.tag = "Panic" THEN Stop(footers.res, footers.dec)
        ELSE IF footers.res.tag = "Err"
        THEN Stop(Err("FrameError", <<"invalid frame footer: ">> \o Display(footers.res)),
                  footers.dec)
        ELSE [res |-> Ok(<<>>), dec |-> footers.dec, frame |-> frame, trace |-> <<>>,
              writes |-> <<>>]
        ])])])])])])])])])])])])])])])])])

\* decode_frame returning its Frame as the slice loop left it, scratch buffers included
decode_frame_end_keeping(done) ==
    IF done.res.tag # "Ok"
    THEN [res |-> done.res, dec |-> done.dec, trace |-> done.trace, writes |-> done.writes]
    ELSE [res |-> Ok(done.frame), dec |-> done.dec, trace |-> done.trace,
          writes |-> done.writes]

\* Decoder::decode_frame after its slice loop: the scratch buffers are dropped
decode_frame_end(done) ==
    Let([record \in {done.dec.record} |->
        IF done.res.tag # "Ok"
        THEN [res |-> done.res, dec |-> done.dec, trace |-> done.trace,
              writes |-> done.writes]
        ELSE [res |-> Ok([done.frame EXCEPT
                              !.buf16 = IF record.bits_per_raw_sample = 8
                                           /\ record.colorspace_type = 1
                                        THEN <<>> ELSE done.frame.buf16,
                              !.buf32 = <<>>]),
              dec |-> done.dec, trace |-> done.trace, writes |-> done.writes]])

\* Decoder::decode_frame: the result (Ok with the Frame), the decoder it leaves, and
\* the slices it began to decode
decode_frame(dec, frame_input) ==
    decode_frame_end(decode_slices(decode_frame_begin(dec, frame_input), frame_input, 0))

\* the orders slices 0..n-1 can be decoded in, as sequences of slice numbers
SliceOrders(n) ==
    {o \in [1..n -> 0..(n - 1)] : \A i, j \in 1..n : o[i] = o[j] => i = j}

\* the slice loop of decode_frame with its decode_slice calls made in the given order
\* (0, 1, .., n-1 is the loop of the code): t = [res, dec, frame, trace,
\* writes]
RECURSIVE decode_slices_in(_, _, _, _)
decode_slices_in(t, buf, order, k) ==
    IF t.res.tag # "Ok" \/ k > Len(order) THEN t
    ELSE Let([r \in {decode_slice(t.dec, buf, order[k], t.frame)} |->
             decode_slices_in(
                 [res   |-> IF r.res.tag = "Err"
                            THEN Err("SliceError",
                                     <<"slice ", ToString(order[k]), " failed: ">>
                                         \o Display(r.res))
                            ELSE r.res,
                  dec   |-> r.dec,
                  frame |-> r.frame,
                  trace |-> t.trace \o r.began,
                  writes |-> Append(t.writes, r.writes)],
                 buf, order, k + 1)])

\* the order of the loop of decode_frame
IndexOrder(n) == [k \in 1..n |-> k - 1]

\* decode_frame with the slices of the packet decoded in each order other than the
\* order of the code; no order when the slice loop is not reached
decode_frame_in_orders(dec, frame_input) ==
    Let([t \in {decode_frame_begin(dec, frame_input)} |->
        IF t.res.tag # "Ok" THEN <<>>
        ELSE Let([n \in {Len(t.dec.current_frame.slices)} |->
                 [o \in SliceOrders(n) \ {IndexOrder(n)} |->
                     decode_frame_end(decode_slices_in(t, frame_input, o, 1))]])])

(***************************************************************************)
(* Inputs.  Configuration records and packets are byte strings made with a *)
(* range encoder (the inverse of RangeCoder) and the CRC above.  All       *)
(* records but RBad, RZero and REmpty carry a correct CRC; their names     *)
(* tell the coded field that departs from RA's:                            *)
(*   RA    version 3, micro_version 4, coder_type 1, YCbCr, 8 bits, no     *)
(*         chroma or extra plane, num_h_slices_minus1 1, one quant table   *)
(*         set, ec 1                                                       *)
(*   RG    coder_type 0 (Golomb-Rice)      RE0   ec 0                      *)
(*   RX    extra_plane without chroma      RBad  RA with a flipped bit     *)
(*   RV2   version 2                       V259, CT256, ..: that value     *)
(* Packets, for a 2x1 frame:                                               *)
(*   KA1   keyframe, one slice of 2 samples     KA2  keyframe, two slices  *)
(*   NA1   non-keyframe, one slice              NA2  non-keyframe, two     *)
(*   KAe   KA1 with error_status 1              KAc  KA1 with a wrong CRC  *)
(*   KA2c  KA2 with a wrong CRC on slice 1      NAe  NA1 with error_status *)
(*   PT    KA1 without its first byte           PE   the empty packet      *)
(*   KG1   keyframe, Golomb-Rice coded          NG1  non-keyframe, Golomb  *)
(*   KO2   KA2 with both slices at slice_x 0                               *)
(***************************************************************************)
Records ==
    [RA |-> <<86, 1, 227, 42, 173, 90, 181, 106, 213, 171, 86, 171, 58, 251, 0, 142,
        190, 77, 154>>,
     RG |-> <<86, 46, 215, 35, 126, 253, 251, 247, 239, 223, 191, 122, 210, 255, 0,
        151, 148, 111, 36>>,
     RE0 |-> <<86, 1, 227, 42, 173, 90, 181, 106, 213, 171, 86, 172, 245, 255, 0, 70,
        171, 211, 181>>,
     RX |-> <<86, 2, 14, 164, 185, 114, 229, 203, 151, 46, 92, 183, 81, 26, 0, 148,
        107, 97, 201>>,
     RBad |-> <<86, 1, 227, 42, 173, 74, 181, 106, 213, 171, 86, 171, 58, 251, 0,
        142, 190, 77, 154>>,
     RV2 |-> <<70, 19, 95, 56, 66, 133, 10, 20, 40, 80, 161, 61, 225, 255, 0, 227,
        140, 142, 147>>,
     RZero |-> <<0>>,
     REmpty |-> <<>>,
     V259 |-> <<127, 1, 87, 179, 17, 29, 12, 24, 48, 96, 193, 131, 5, 252, 57, 0, 12,
        212, 68, 138>>,
     CT256 |-> <<86, 22, 133, 209, 9, 92, 74, 149, 42, 84, 169, 82, 165, 69, 235,
        255, 0, 139, 66, 159, 236>>,
     CS256 |-> <<85, 252, 237, 35, 189, 46, 179, 102, 205, 155, 54, 108, 217, 177,
        63, 132, 0, 153, 126, 212, 168>>,
     M0 |-> <<89, 143, 22, 126, 183, 110, 221, 187, 118, 237, 219, 10, 202, 0, 222,
        91, 253, 119>>,
     M256 |-> <<87, 255, 176, 224, 116, 142, 112, 225, 195, 135, 14, 28, 56, 46, 210,
        0, 69, 12, 205, 32>>,
     CT3 |-> <<86, 13, 29, 255, 255, 189, 111, 191, 209, 163, 70, 141, 26, 52, 104,
        207, 84, 155, 0, 226, 67, 163, 57>>,
     CS2 |-> <<85, 249, 60, 224, 207, 90, 181, 106, 213, 171, 86, 172, 210, 121, 0,
        35, 146, 203, 194>>,
     B7 |-> <<86, 0, 29, 86, 55, 151, 46, 92, 185, 114, 229, 203, 118, 104, 0, 73,
        232, 37, 106>>,
     B17 |-> <<86, 0, 105, 131, 237, 185, 114, 229, 203, 151, 46, 92, 183, 88, 57, 0,
        92, 136, 216, 241>>,
     B16 |-> <<86, 0, 103, 154, 109, 179, 102, 205, 155, 54, 108, 217, 177, 65, 239,
        0, 108, 218, 141, 246>>,
     EC2 |-> <<86, 1, 255, 3, 131, 6, 12, 24, 48, 96, 193, 127, 143, 96, 0, 207, 64,
        191, 25>>,
     Q0 |-> <<86, 2, 3, 131, 255, 0, 110, 217, 25, 33>>,
     Q9 |-> <<86, 2, 2, 85, 247, 0, 187, 216, 129, 230>>,
     Q2 |-> <<86, 2, 0, 150, 211, 167, 78, 157, 58, 116, 233, 211, 167, 78, 157, 58,
        116, 233, 211, 167, 73, 177, 47, 0, 38, 158, 128, 141>>,
     G10 |-> <<86, 43, 160, 249, 3, 44, 88, 177, 98, 197, 139, 22, 28, 121, 0, 193,
        75, 112, 185>>,
     G264 |-> <<86, 44, 89, 254, 48, 115, 78, 157, 58, 116, 233, 211, 167, 73, 254,
        255, 0, 80, 93, 186, 10>>,
     RGB |-> <<85, 248, 50, 213, 181, 106, 213, 171, 86, 173, 90, 179, 62, 29, 0,
        125, 197, 166, 223>>,
     RGBnc |-> <<85, 247, 112, 116, 169, 82, 165, 74, 149, 42, 84, 167, 36, 139, 0,
        117, 91, 71, 199>>,
     RGBh |-> <<85, 247, 178, 247, 74, 149, 42, 84, 169, 82, 165, 73, 114, 123, 0,
        218, 4, 66, 203>>,
     RGBv |-> <<85, 247, 254, 24, 203, 151, 46, 92, 185, 114, 229, 202, 118, 42, 0,
        1, 131, 193, 237>>,
     RGBh256 |-> <<85, 247, 243, 129, 39, 39, 223, 191, 126, 253, 251, 247, 239, 222,
        185, 255, 0, 76, 106, 171, 34>>]

Packets ==
    [KA1 |-> <<228, 239, 24, 111, 0, 0, 0, 5, 0, 190, 102, 195, 84>>,
     KA2 |-> <<254, 14, 63, 0, 0, 0, 4, 0, 235, 117, 51, 118, 63, 55, 251, 0, 0, 0,
        4, 0, 124, 226, 20, 88>>,
     NA1 |-> <<101, 68, 179, 0, 0, 0, 4, 0, 110, 247, 79, 48>>,
     NA2 |-> <<126, 85, 255, 0, 0, 0, 4, 0, 55, 1, 130, 212, 62, 241, 159, 0, 0, 0,
        4, 0, 237, 78, 29, 68>>,
     KAe |-> <<228, 239, 24, 111, 0, 0, 0, 5, 1, 186, 167, 222, 227>>,
     KAc |-> <<228, 239, 24, 111, 0, 0, 0, 5, 0, 190, 102, 194, 84>>,
     KA2c |-> <<254, 14, 63, 0, 0, 0, 4, 0, 235, 117, 51, 118, 63, 55, 251, 0, 0, 0,
        4, 0, 124, 226, 21, 88>>,
     NAe |-> <<101, 68, 179, 0, 0, 0, 4, 1, 106, 54, 82, 135>>,
     PT |-> <<239, 24, 111, 0, 0, 0, 5, 0, 190, 102, 195, 84>>,
     PE |-> <<>>,
     KG1 |-> <<228, 196, 179, 0, 182, 64, 0, 0, 0, 7, 0, 90, 157, 73, 221>>,
     NG1 |-> <<101, 68, 179, 0, 109, 128, 0, 0, 0, 7, 0, 84, 184, 246, 179>>,
     KO2 |-> <<254, 14, 63, 0, 0, 0, 4, 0, 235, 117, 51, 118, 253, 50, 127, 0, 0, 0,
        4, 0, 179, 225, 134, 108>>]

\* the records decoders are built from, and the frame sizes tried
DecoderRecords == {"RA", "RG", "RE0", "RX", "RBad", "RV2", "RZero", "REmpty"}

Widths == {0, 2}

Heights == {0, 1}

\* the keyframe packets made for a decoder of the record, for a 2x1 frame
ValidKeyframes(record) ==
    IF record = "RA" THEN {"KA1", "KA2"} ELSE IF record = "RG" THEN {"KG1"} ELSE {}

\* the most decode_frame calls made on one decoder
MaxCalls == 3

\* the longest buffer given to the footer scan, and its bytes
MaxFooterLen == 9

FooterBytes == {0, 1}

None == [tag |-> "None"]

\* a result without the value it carries
Outcome(res) == IF res.tag = "Ok" THEN [tag |-> "Ok"] ELSE res

(***************************************************************************)
(* The decoder's life: Decoder::new once, then decode_frame calls.  A      *)
(* panic ends it.                                                          *)
(***************************************************************************)
Init ==
    /\ overflow_checks \in BOOLEAN
    /\ pc = "start"
    /\ decoder = None
    /\ result = None
    /\ calls = 0
    /\ last = None
    /\ input = None
    /\ output = None

\* a decoder as Decoder::new leaves it: nothing but decode_frame's writes to
\* current_frame tells a used decoder from a new one
NewDecoder(dec) ==
    [dec EXCEPT !.current_frame = [keyframe |-> FALSE, slice_info |-> <<>>, slices |-> <<>>]]

\* Decoder::new(record, width, height); output keeps what parse_config_record
\* returned to it, when it got that far
New(r, width, height) ==
    /\ pc = "start"
    /\ \E d \in {Decoder_new(Records[r], width, height)} :
           /\ result' = Outcome(d)
           /\ decoder' = IF d.tag = "Ok" THEN d.val ELSE None
           /\ pc' = IF d.tag = "Ok" THEN "ready" ELSE IF d.tag = "Err" THEN "failed" ELSE "dead"
    /\ input' = [record |-> r, width |-> width, height |-> height]
    /\ output' = IF width = 0 \/ height = 0 \/ Len(Records[r]) = 0 THEN None
                 ELSE Outcome(parse_config_record(Records[r], width, height))
    /\ UNCHANGED <<overflow_checks, calls, last>>

\* decoder.decode_frame(packet); last keeps, beside what the call did, what the same
\* call does on a new decoder and with the slices decoded in each other order
DecodeFrame(p) ==
    /\ pc = "ready"
    /\ calls < MaxCalls
    /\ \E r \in {decode_frame(decoder, Packets[p])},
          f \in {decode_frame(NewDecoder(decoder), Packets[p])},
          in \in {decode_frame_in_orders(decoder, Packets[p])} :
           /\ result' = r.res
           /\ decoder' = r.dec
           /\ pc' = IF r.res.tag = "Panic" THEN "dead" ELSE "ready"
           /\ last' = [packet |-> p,
                       prev   |-> IF calls = 0 THEN "None" ELSE result.tag,
                       slices |-> decoder.current_frame.slices,
                       trace  |-> r.trace,
                       fresh  |-> [res |-> f.res, slices |-> f.dec.current_frame.slices,
                                   trace |-> f.trace],
                       orders |-> [o \in DOMAIN in |->
                                      [res |-> in[o].res,
                                       slices |-> in[o].dec.current_frame.slices]]]
    /\ calls' = calls + 1
    /\ UNCHANGED <<overflow_checks, input, output>>

Next ==
    \/ \E r \in DecoderRecords, width \in Widths, height \in Heights : New(r, width, height)
    \/ \E p \in DOMAIN Packets : DecodeFrame(p)

Spec == Init /\ [][Next]_vars

(***************************************************************************)
(* parse_config_record as a function of its arguments.                     *)
(***************************************************************************)
InitRecord ==
    /\ overflow_checks \in BOOLEAN
    /\ pc = "start"
    /\ decoder = None
    /\ result = None
    /\ calls = 0
    /\ last = None
    /\ input \in [record : DOMAIN Records, width : {1, 2}, height : {1}]
    /\ output = None

ParseRecord ==
    /\ pc = "start"
    /\ output' = parse_config_record(Records[input.record], input.width, input.height)
    /\ pc' = "parsed"
    /\ UNCHANGED <<overflow_checks, decoder, result, calls, last, input>>

NextRecord == ParseRecord

SpecRecord == InitRecord /\ [][NextRecord]_vars

(***************************************************************************)
(* count_slices as a function of its arguments.                            *)
(***************************************************************************)
FooterBufs == UNION {[1..n -> FooterBytes] : n \in 0..MaxFooterLen}

InitFooter ==
    /\ overflow_checks \in BOOLEAN
    /\ pc = "start"
    /\ decoder = None
    /\ result = None
    /\ calls = 0
    /\ last = None
    /\ input \in [buf : FooterBufs, ec : BOOLEAN]
    /\ output = None

CountSlices ==
    /\ pc = "start"
    /\ output' = count_slices(input.buf, input.ec)
    /\ pc' = "scanned"
    /\ UNCHANGED <<overflow_checks, decoder, result, calls, last, input>>

NextFooter == CountSlices

SpecFooter == InitFooter /\ [][NextFooter]_vars

(***************************************************************************)
(* The planes of a frame and of its slices as functions of the record's    *)
(* geometry: the Frame decode_frame allocates for a keyframe packet, and   *)
(* the planes parse_slice_header lays out for the header of each cell of   *)
(* the slice grid (slice_x, slice_y the cell, slice_width_minus1 and       *)
(* slice_height_minus1 zero).                                              *)
(***************************************************************************)
\* the largest frame laid out
MaxWidth == 4

MaxHeight == 3

\* the records laid out: 8-bit YCbCr, range coder, ec 1; parse_config_record takes
\* every one of these geometries
LayoutRecords ==
    [width : 1..MaxWidth, height : 1..MaxHeight,
     chroma_planes : BOOLEAN, extra_plane : BOOLEAN,
     log2_h_chroma_subsample : {0, 1}, log2_v_chroma_subsample : {0, 1},
     num_h_slices_minus1 : {0, 1}, num_v_slices_minus1 : {0, 1},
     bits_per_raw_sample : {8}, colorspace_type : {0}, coder_type : {1}, ec : {1}]

\* the indices decode_slice_content_yuv writes in the buffer it pairs with a plane:
\* buf[plane.offset..][(yy * stride) + x] for y in 0..height, x in 0..width
plane_writes(plane) ==
    {plane.offset + (y * plane.stride) + x :
        x \in 0..(plane.width - 1), y \in 0..(plane.height - 1)}

InitLayout ==
    /\ overflow_checks \in BOOLEAN
    /\ pc = "start"
    /\ decoder = None
    /\ result = None
    /\ calls = 0
    /\ last = None
    /\ input \in LayoutRecords
    /\ output = None

\* decode_frame on a decoder of the record up to the slice loop, and the planes of
\* the slice of each grid cell
Layout ==
    /\ pc = "start"
    /\ \E t \in {decode_frame_begin(
                      [record |-> input,
                       current_frame |-> [keyframe |-> FALSE, slice_info |-> <<>>,
                                          slices |-> <<>>]],
                      Packets.KA1)} :
           output' = [res    |-> t.res,
                      frame  |-> t.frame,
                      slices |-> [sx \in 0..input.num_h_slices_minus1,
                                  sy \in 0..input.num_v_slices_minus1 |->
                                     slice_planes([DefaultSliceHeader EXCEPT
                                                      !.slice_x = sx, !.slice_y = sy],
                                                  input)]]
    /\ pc' = "laid"
    /\ UNCHANGED <<overflow_checks, decoder, result, calls, last, input>>

NextLayout == Layout

SpecLayout == InitLayout /\ [][NextLayout]_vars

(***************************************************************************)
(* Pictures decoded from keyframe packets of one slice, for records of     *)
(* each colour space and bit depth (all with the range coder, ec 1 and     *)
(* num_h_slices_minus1 1, the other fields as RA has them):                *)
(*   Y8     RA: 8-bit YCbCr without chroma     Y10, Y16  10 and 16 bits     *)
(*   YC8    chroma planes, log2_h 1            YCA8  chroma and alpha       *)
(*   RGB8, RGB10, RGB16  RGB (JPEG2000-RCT)    RGBA8 RGB and alpha          *)
(* and packets that code, for a frame 2 wide and 1 high (P3h: the left     *)
(* half of it), the samples of one plane (P1), three planes of YC8 (P3y,   *)
(* P3h), three of RGB (P3r), four of YCA8 (P4y) and four of RGBA8 (P4r).   *)
(***************************************************************************)
PictureRecords ==
    [Y8 |-> Records.RA,
     YC8 |-> <<86, 2, 106, 27, 120, 112, 225, 195, 135, 14, 28, 56, 112, 225, 195, 135, 14,
        28, 56, 112, 224, 174, 88, 0, 140, 148, 0, 16>>,
     YCA8 |-> <<86, 3, 130, 211, 0, 84, 169, 82, 165, 74, 149, 42, 84, 169, 82, 165, 74, 149,
        42, 84, 169, 82, 165, 74, 149, 42, 84, 169, 82, 155, 19, 157, 0, 215, 114, 38,
        120>>,
     YC8q1 |-> <<86, 2, 105, 173, 203, 151, 46, 92, 185, 114, 229, 202, 122, 105, 0, 129,
        158, 113, 156>>,
     YA8 |-> <<86, 2, 15, 109, 191, 98, 197, 139, 22, 44, 88, 177, 98, 197, 139, 22, 44, 88,
        177, 98, 195, 80, 90, 0, 25, 34, 203, 231>>,
     Y10 |-> <<86, 0, 62, 214, 183, 50, 100, 201, 147, 38, 76, 153, 46, 18, 255, 0, 9, 172,
        164, 155>>,
     Y16 |-> <<86, 0, 103, 136, 251, 58, 116, 233, 211, 167, 78, 157, 57, 69, 161, 0, 128,
        172, 40, 109>>,
     RGB8 |-> <<85, 248, 37, 228, 120, 112, 225, 195, 135, 14, 28, 56, 112, 225, 195, 135, 14,
        28, 56, 112, 224, 172, 112, 0, 179, 196, 152, 201>>,
     RGB10 |-> <<85, 246, 80, 61, 87, 42, 80, 161, 66, 133, 10, 20, 40, 80, 161, 66, 133, 10,
        20, 40, 80, 158, 233, 151, 0, 88, 133, 82, 236>>,
     RGBA10 |-> <<85, 246, 80, 104, 109, 155, 126, 253, 251, 247, 239, 223, 191, 126, 253,
        251, 247, 239, 223, 191, 126, 253, 251, 247, 239, 223, 191, 126, 253, 251, 240,
        114, 87, 0, 216, 199, 164, 178>>,
     RGB16 |-> <<85, 246, 105, 151, 221, 228, 239, 223, 191, 126, 253, 251, 247, 239, 223, 191,
        126, 253, 251, 247, 239, 223, 27, 35, 0, 207, 203, 20, 50>>,
     RGBA8 |-> <<85, 248, 59, 61, 76, 243, 231, 207, 159, 62, 124, 249, 243, 231, 207, 159, 62,
        124, 249, 243, 231, 207, 159, 62, 124, 249, 243, 231, 207, 154, 199, 234, 0,
        173, 46, 2, 84>>]

PicturePackets ==
    [P1 |-> Packets.KA1,
     P3y |-> <<229, 7, 239, 25, 94, 94, 0, 0, 0, 7, 0, 193, 143, 145, 186>>,
     P3h |-> <<254, 94, 202, 89, 173, 0, 0, 0, 6, 0, 22, 197, 36, 187>>,
     P3r |-> <<229, 11, 138, 40, 219, 114, 26, 30, 184, 82, 0, 0, 0, 11, 0, 209, 191, 159,
        136>>,
     P4y |-> <<229, 21, 232, 107, 28, 51, 219, 236, 255, 0, 0, 0, 10, 0, 6, 201, 61, 13>>,
     P4r |-> <<229, 21, 233, 0, 185, 39, 15, 6, 201, 89, 144, 255, 0, 0, 0, 13, 0, 52, 67,
        253, 161>>]

PictureWidths == {2, 3}

InitPicture ==
    /\ overflow_checks \in BOOLEAN
    /\ pc = "start"
    /\ decoder = None
    /\ result = None
    /\ calls = 0
    /\ last = None
    /\ input \in [record : DOMAIN PictureRecords, width : PictureWidths,
                  packet : DOMAIN PicturePackets]
    /\ output = None

\* Decoder::new(record, width, 1)
NewPicture ==
    /\ pc = "start"
    /\ \E d \in {Decoder_new(PictureRecords[input.record], input.width, 1)} :
           /\ result' = Outcome(d)
           /\ decoder' = IF d.tag = "Ok" THEN d.val ELSE None
           /\ pc' = IF d.tag = "Ok" THEN "ready" ELSE IF d.tag = "Err" THEN "failed" ELSE "dead"
    /\ UNCHANGED <<overflow_checks, calls, last, input, output>>

\* decoder.decode_frame(packet); output keeps the writes each slice made to the frame
DecodePicture ==
    /\ pc = "ready"
    /\ \E r \in {decode_frame(decoder, PicturePackets[input.packet])} :
           /\ result' = r.res
           /\ decoder' = r.dec
           /\ output' = [writes |-> r.writes, trace |-> r.trace]
           /\ pc' = IF r.res.tag = "Panic" THEN "dead" ELSE "decoded"
    /\ calls' = calls + 1
    /\ UNCHANGED <<overflow_checks, last, input>>

NextPicture == NewPicture \/ DecodePicture

SpecPicture == InitPicture /\ [][NextPicture]_vars

(***************************************************************************)
(* The claims.                                                             *)
(***************************************************************************)
\* the packet of the last decode_frame call, and what the footer scan and the
\* keyframe bit make of it
LastPacket == Packets[last.packet]

LastScan == count_slices(LastPacket, decoder.record.ec # 0)

LastIsKeyframe == is_keyframe(LastPacket) = Ok(TRUE)

LastIsInter == is_keyframe(LastPacket) = Ok(FALSE)

MismatchReason ==
    <<"inter frames must have the same number of slices as the preceding intra frame">>

\* C1: no argument of Decoder::new and no packet given to decode_frame makes the call
\* panic: every call returns Ok or Err.
C1_NeverPanics == result.tag # "Panic"

\* C2: when the preceding decode_frame succeeded and the packet is a non-keyframe with
\* as many slices as the decoder holds, the slices are begun in order, each from the
\* range-coder state (and, for coder_type 0, the Golomb state) its slice held when
\* the preceding call ended, and with an empty header and no planes; a call that
\* returns Ok has begun them all.
C2_StateCarried ==
    (calls > 0 /\ last.prev = "Ok" /\ LastIsInter
       /\ LastScan.tag = "Ok" /\ Len(LastScan.val) = Len(last.slices))
    => /\ \A k \in 1..Len(last.trace) :
            LET began == last.trace[k]
                held  == last.slices[k]
            IN  /\ began.slicenum = k - 1
                /\ began.state = held.state
                /\ decoder.record.coder_type = 0 => began.golomb_state = held.golomb_state
                /\ began.header = DefaultSliceHeader
                /\ began.planes = <<>>
       /\ result.tag = "Ok" => Len(last.trace) = Len(last.slices)

\* C2's case: a two-slice non-keyframe decoded after a successful call, both slices
\* begun from states that are no longer the record's initial states
C2_Witness ==
    /\ calls > 0 /\ last.prev = "Ok" /\ LastIsInter
    /\ LastScan.tag = "Ok" /\ Len(LastScan.val) = Len(last.slices)
    /\ result.tag = "Ok"
    /\ Len(last.trace) = 2
    /\ \A k \in 1..2 : /\ last.trace[k].state # decoder.record.initial_states
                       /\ last.trace[k].state = last.slices[k].state
    /\ last.slices[1].header # DefaultSliceHeader

\* the Golomb states reset_slice_states is to give a slice: per quant table set, one
\* {drift 0, error_sum 4, bias 0, count 1} per context
InitialGolomb(record) ==
    [i \in 1..record.quant_table_set_count |->
        [c \in 1..record.context_count[i] |->
            [drift |-> 0, error_sum |-> 4, bias |-> 0, count |-> 1]]]

\* C3: decode_frame on a keyframe packet returns what a new decoder of the same
\* record returns for it and leaves the same slices, whatever calls came before, and
\* every slice is begun from the record's initial_states and (coder_type 0) the
\* default Golomb states.
C3_KeyframeResets ==
    (calls > 0 /\ LastIsKeyframe)
    => /\ result = last.fresh.res
       /\ last.trace = last.fresh.trace
       /\ result.tag # "Panic" => decoder.current_frame.slices = last.fresh.slices
       /\ \A k \in 1..Len(last.trace) :
            /\ last.trace[k].state = decoder.record.initial_states
            /\ decoder.record.coder_type = 0
                 => last.trace[k].golomb_state = InitialGolomb(decoder.record)

\* C3's case: a keyframe decoded by a decoder whose slices had adapted (or had been
\* left without states by a failed call) gives the frame a new decoder gives
C3_Witness ==
    /\ calls > 1 /\ LastIsKeyframe
    /\ result.tag = "Ok"
    /\ Len(last.trace) > 0
    /\ Len(last.slices) > 0
    /\ last.slices[1].state # decoder.record.initial_states
    /\ decoder.current_frame.slices[1].state # decoder.record.initial_states

\* C4: after a decode_frame call that returned an error, decode_frame on a valid
\* keyframe packet returns Ok with the Frame a new decoder returns for that packet.
C4_RecoversAfterError ==
    (calls > 0 /\ last.prev = "Err" /\ input.width = 2 /\ input.height = 1
       /\ last.packet \in ValidKeyframes(input.record))
    => result.tag = "Ok" /\ result = last.fresh.res

\* C4's case: a valid keyframe decoded right after a failed call
C4_Witness ==
    /\ calls > 1 /\ last.prev = "Err"
    /\ last.packet \in ValidKeyframes(input.record)
    /\ result.tag = "Ok"
    /\ Len(result.val.buf) > 0

\* a non-keyframe whose footer scan finds another number of slices than the decoder
\* holds from the preceding frame (none, on a new decoder)
SliceCountMismatch ==
    /\ calls > 0
    /\ LastIsInter
    /\ LastScan.tag = "Ok"
    /\ Len(LastScan.val) # Len(last.slices)

\* C5 (as stated): a non-keyframe with another number of slices than the preceding
\* frame makes decode_frame fail with kind SliceError, no slice being decoded.
C5_MismatchIsSliceError ==
    SliceCountMismatch
    => result.tag = "Err" /\ result.kind = "SliceError" /\ last.trace = <<>>

\* C5 (amended): such a packet never makes decode_frame return Ok and none of its
\* slices is begun; when the call returns, it returns FrameError("invalid frame
\* footer: Slice error: inter frames must have ..."), parse_footers' SliceError inside
\* it, and the decoder keeps the slices it held.
C5_MismatchIsFrameError ==
    SliceCountMismatch
    => /\ result.tag # "Ok"
       /\ last.trace = <<>>
       /\ result.tag = "Err"
            => /\ result = Err("FrameError",
                               <<"invalid frame footer: ", "Slice error: ">> \o MismatchReason)
               /\ decoder.current_frame.slices = last.slices

\* C5's case: a two-slice non-keyframe after a one-slice frame, refused
C5_Witness ==
    /\ SliceCountMismatch
    /\ Len(last.slices) = 1
    /\ Len(LastScan.val) = 2
    /\ result.tag = "Err"

\* the footer scan's slices that fail the integrity check decode_slice makes when
\* ec is 1: a non-zero error_status, or a non-zero CRC over buf[pos..pos+size+8]
SliceIsBad(info) ==
    \/ info.error_status # 0
    \/ crc32_mpeg2(SubSeq(LastPacket, info.pos + 1, info.pos + info.size + 8)) # <<0, 0>>

BadSlices == {i \in 1..Len(LastScan.val) : SliceIsBad(LastScan.val[i])}

FirstBad == CHOOSE i \in BadSlices : \A j \in BadSlices : i <= j

\* a packet given to a decoder with ec = 1 whose footers scan and of which some slice
\* fails the integrity check
SomeSliceBad ==
    /\ calls > 0
    /\ decoder.record.ec = 1
    /\ LastScan.tag = "Ok"
    /\ BadSlices # {}

\* C6 (as stated): with ec = 1 a slice with a non-zero error_status makes the call
\* fail with kind SliceError and a slice whose CRC is not zero makes it fail with
\* kind InvalidInputData; that slice is not entropy-decoded.
C6_IntegrityKinds ==
    SomeSliceBad
    => /\ result.tag = "Err"
       /\ result.kind = (IF LastScan.val[FirstBad].error_status # 0
                         THEN "SliceError" ELSE "InvalidInputData")
       /\ \A k \in 1..Len(last.trace) : last.trace[k].slicenum + 1 # FirstBad

\* C6 (amended): with ec = 1 a packet with such a slice never makes decode_frame
\* return Ok, and neither the first such slice nor any slice after it is begun; when
\* the call returns, it returns either the slice-count error of C5 or
\* SliceError("slice i failed: " + the check's own error), the check's error being
\* "Slice error: error_status is non-zero: e" or "Invalid input data: CRC mismatch".
C6_IntegrityRefused ==
    SomeSliceBad
    => /\ result.tag # "Ok"
       /\ \A k \in 1..Len(last.trace) : last.trace[k].slicenum + 1 < FirstBad
       /\ result.tag = "Err"
            => \/ result = Err("FrameError",
                               <<"invalid frame footer: ", "Slice error: ">> \o MismatchReason)
               \/ result = Err("SliceError",
                     <<"slice ", ToString(FirstBad - 1), " failed: ">>
                     \o (IF LastScan.val[FirstBad].error_status # 0
                         THEN <<"Slice error: ", "error_status is non-zero: ",
                                ToString(LastScan.val[FirstBad].error_status)>>
                         ELSE <<"Invalid input data: ", "CRC mismatch">>))

\* C6's case: the second slice of a two-slice keyframe fails its CRC after the first
\* slice has been decoded
C6_Witness ==
    /\ SomeSliceBad
    /\ FirstBad = 2
    /\ LastScan.val[2].error_status = 0
    /\ Len(last.trace) = 1
    /\ result.tag = "Err" /\ result.kind = "SliceError"

\* the scan of C7 finds a fault: with end_pos bytes left (not 0) there are fewer than
\* footer_size of them, or the footer's slice_size and the footer exceed them
RECURSIVE FooterFault(_, _, _)
FooterFault(buf, footer_size, end_pos) ==
    IF end_pos <= 0 THEN FALSE
    ELSE IF end_pos < footer_size THEN TRUE
    ELSE LET size == buf[end_pos - footer_size + 1] * 65536
                     + buf[end_pos - footer_size + 2] * 256
                     + buf[end_pos - footer_size + 3]
         IN  IF size + footer_size > end_pos THEN TRUE
             ELSE FooterFault(buf, footer_size, end_pos - size - footer_size)

\* C7: a footer scan that meets a slice_size larger than the bytes before the footer,
\* or fewer bytes than a footer, fails with kind SliceError.
C7_FooterFaultIsSliceError ==
    (pc = "scanned"
       /\ FooterFault(input.buf, IF input.ec THEN 8 ELSE 3, Len(input.buf)))
    => output.tag = "Err" /\ output.kind = "SliceError"

C9_OkOnlyIfValid ==
    (pc = "parsed" /\ output.tag = "Ok")
    => LET d == output.decoded
       IN  /\ d.version = 3
           /\ d.micro_version >= 1
           /\ d.coder_type \in 0..2
           /\ d.colorspace_type \in 0..1
           /\ d.coder_type = 0 => d.bits_per_raw_sample \in {0, 8}
           /\ d.colorspace_type = 1
                => /\ d.chroma_planes
                   /\ d.log2_h_chroma_subsample = 0
                   /\ d.log2_v_chroma_subsample = 0
           /\ d.quant_table_set_count \in 1..MAX_QUANT_TABLES

\* C10: a record that parse_config_record accepts has bits_per_raw_sample between 8
\* and 16 and ec 0 or 1.
C10_OkFieldsInRange ==
    (pc = "parsed" /\ output.tag = "Ok")
    => /\ output.val.bits_per_raw_sample \in 8..16
       /\ output.val.ec \in {0, 1}

(***************************************************************************)
(* Slices of one frame.                                                    *)
(***************************************************************************)
\* C11: decoding the slices of a packet in any other order gives what decoding them
\* in index order gives: the same result (the same Frame) and the same slices left in
\* the decoder.
C11_AnyOrderSameFrame ==
    calls > 0
    => \A o \in DOMAIN last.orders :
           /\ last.orders[o].res = result
           /\ last.orders[o].slices = decoder.current_frame.slices

\* C12: when the slice headers of a frame enumerate the cells of the slice grid, no
\* two slices write the same index of a plane's buffer, and every index a slice
\* writes is smaller than the length of the buffer of that plane.
C12_GridWritesDisjointInBounds ==
    (pc = "laid" /\ output.res.tag = "Ok")
    => \A c1 \in DOMAIN output.slices, c2 \in DOMAIN output.slices :
           /\ ~output.slices[c1].panic
           /\ \A k \in 1..Len(output.slices[c1].planes) :
                  /\ k <= Len(output.frame.buf)
                  /\ \A i \in plane_writes(output.slices[c1].planes[k]) :
                         i < Len(output.frame.buf[k])
                  /\ c1 # c2 => plane_writes(output.slices[c1].planes[k])
                                    \cap plane_writes(output.slices[c2].planes[k]) = {}

\* the planes of a returned Frame that hold the picture
PicturePlanes(frame) == IF Len(frame.buf) > 0 THEN frame.buf ELSE frame.buf16

\* C13: in every Frame decode_frame returns, the luma plane and the alpha plane have
\* width * height elements and each chroma plane has
\* ceil(width / 2^log2_h_chroma_subsample) * ceil(height / 2^log2_v_chroma_subsample).
C13_PlaneDimensions ==
    (pc = "decoded" /\ result.tag = "Ok")
    => LET record == decoder.record
           planes == PicturePlanes(result.val)
           cw == (record.width + 2^record.log2_h_chroma_subsample - 1)
                     \div 2^record.log2_h_chroma_subsample
           ch == (record.height + 2^record.log2_v_chroma_subsample - 1)
                     \div 2^record.log2_v_chroma_subsample
       IN  /\ Len(planes[1]) = record.width * record.height
           /\ record.chroma_planes
                  => Len(planes[2]) = cw * ch /\ Len(planes[3]) = cw * ch
           /\ record.extra_plane => Len(planes[4]) = record.width * record.height

\* C14: in every slice the first entry of the plane list is luma-sized with quant index
\* 0 (written to output plane 0), the chroma entries have quant index 1 and the alpha
\* entry, when extra_plane is set, is the last one, luma-sized with quant index 2.
C14_PlaneOrder ==
    (pc = "decoded" /\ result.tag = "Ok")
    => \A i \in DOMAIN decoder.current_frame.slices :
           LET record == decoder.record
               planes == decoder.current_frame.slices[i].planes
               n == Len(planes)
           IN  /\ n = (1 + (IF record.chroma_planes THEN 2 ELSE 0)
                         + (IF record.extra_plane THEN 1 ELSE 0))
               /\ planes[1].quant = 0
               /\ record.chroma_planes => planes[2].quant = 1 /\ planes[3].quant = 1
               /\ record.extra_plane
                      => /\ planes[n].quant = 2
                         /\ planes[n].width = planes[1].width
                         /\ planes[n].stride = planes[1].stride

\* C15: in every Frame decode_frame returns, buf32 is empty; when bits_per_raw_sample
\* is 8 buf has one plane per coded plane and buf16 is empty; when it is above 8 buf16
\* has one plane per coded plane and buf is empty.
C15_OutputBuffers ==
    (pc = "decoded" /\ result.tag = "Ok")
    => LET record == decoder.record
           frame == result.val
           num_planes == 1 + (IF record.chroma_planes THEN 2 ELSE 0)
                           + (IF record.extra_plane THEN 1 ELSE 0)
       IN  /\ frame.buf32 = <<>>
           /\ IF record.bits_per_raw_sample = 8
              THEN Len(frame.buf) = num_planes /\ frame.buf16 = <<>>
              ELSE Len(frame.buf16) = num_planes /\ frame.buf = <<>>

\* an 8-bit RGB picture returned in buf (green, blue, red), its buf16 scratch dropped
C15_Witness ==
    /\ pc = "decoded"
    /\ result.tag = "Ok"
    /\ decoder.record.colorspace_type = 1
    /\ decoder.record.bits_per_raw_sample = 8
    /\ result.val.buf = <<<<10, 11>>, <<13, 10>>, <<8, 12>>>>

\* the indices of a plane's samples in raster order: line by line, left to right
RasterOrder(plane) ==
    [j \in 1..(plane.width * plane.height) |->
        plane.offset + ((j - 1) \div plane.width) * plane.stride + ((j - 1) % plane.width)]

\* the indices a slice wrote to plane p of buffer set which, in the order it wrote them
WritesTo(log, which, p) ==
    LET to == SelectSeq(log, LAMBDA e : e[1] = which /\ e[2] = p)
    IN  [j \in 1..Len(to) |-> to[j][3]]

\* C20: decoding a slice writes each sample of each of its planes exactly once, in
\* raster order, into the output buffer set of the bit depth (buf for 8 bits, buf16
\* above); in YCbCr each plane is completed before the next begins.
C20_RasterWritesOnce ==
    (pc = "decoded" /\ result.tag = "Ok")
    => \A i \in DOMAIN decoder.current_frame.slices :
           LET record == decoder.record
               planes == decoder.current_frame.slices[i].planes
               which == IF record.bits_per_raw_sample = 8 THEN "buf" ELSE "buf16"
               to == SelectSeq(output.writes[i], LAMBDA e : e[1] = which)
           IN  /\ \A k \in 1..Len(planes) :
                      WritesTo(output.writes[i], which, k - 1) = RasterOrder(planes[k])
               /\ record.colorspace_type # 1
                      => \A a, b \in 1..Len(to) : a < b => to[a][2] <= to[b][2]

(***************************************************************************)
(* The inverse JPEG2000-RCT on one pixel: RCT::rct as decode_slice_content *)
(* calls it for a record without alpha, on a frame of one sample whose     *)
(* source planes hold the forward transform of (R, G, B).                  *)
(***************************************************************************)
RctBits == {8, 9, 10, 15, 16}

RctComponents(bits) == {0, 1, 2^(bits - 1), 2^bits - 1}

\* Y, Cb and Cr of a pixel, Cb and Cr stored offset by 2^bits
ForwardRct(R, G, B, bits) ==
    <<G + (((B - G) + (R - G)) \div 4), (B - G) + 2^bits, (R - G) + 2^bits>>

\* the variant decode_slice_content selects for a record without extra_plane
RctVariant(bits) ==
    IF bits = 8 THEN "u8" ELSE IF bits >= 9 /\ bits <= 15 THEN "inplace" ELSE "u32"

InitRct ==
    /\ overflow_checks \in BOOLEAN
    /\ pc = "start"
    /\ decoder = None
    /\ result = None
    /\ calls = 0
    /\ last = None
    /\ \E bits \in RctBits :
           input \in [bits : {bits}, R : RctComponents(bits), G : RctComponents(bits),
                      B : RctComponents(bits)]
    /\ output = None

Rct ==
    /\ pc = "start"
    /\ \E variant \in {RctVariant(input.bits)} :
       \E src \in {[p \in 1..3 |-> <<ForwardRct(input.R, input.G, input.B, input.bits)[p]>>]} :
       \E zero \in {[p \in 1..3 |-> <<0>>]} :
       \E f \in {rct([buf   |-> IF variant = "u8" THEN zero ELSE <<>>,
                      buf16 |-> IF variant = "u32" THEN zero ELSE src,
                      buf32 |-> IF variant = "u32" THEN src ELSE <<>>,
                      panic |-> FALSE, log |-> <<>>],
                     variant, 1, 1, 1, 0, input.bits)} :
           /\ output' = [planes |-> IF variant = "u8" THEN f.buf ELSE f.buf16,
                         panic |-> f.panic]
           /\ pc' = IF f.panic THEN "dead" ELSE "converted"
    /\ UNCHANGED <<overflow_checks, decoder, result, calls, last, input>>

NextRct == Rct

SpecRct == InitRct /\ [][NextRct]_vars

\* C16: for every (R, G, B) with components in [0, 2^bits), the inverse RCT selected
\* for bits, applied to the forward JPEG2000-RCT of the pixel, writes G to output plane
\* 0, B to output plane 1 and R to output plane 2.
C16_RctLossless ==
    pc \in {"converted", "dead"}
    => /\ ~output.panic
       /\ output.planes = <<<<input.G>>, <<input.B>>, <<input.R>>>>

(***************************************************************************)
(* RangeCoder::set_table on a new range coder, for the default state       *)
(* transition table with two of its entries replaced.                      *)
(***************************************************************************)
TableEntries == {0, 1, 128, 255}

StateTables ==
    {[DEFAULT_STATE_TRANSITION EXCEPT ![j + 1] = vj, ![k + 1] = vk] :
        j \in {0, 2, 100, 255}, k \in {1, 3, 254}, vj \in TableEntries, vk \in TableEntries}

InitTable ==
    /\ overflow_checks \in BOOLEAN
    /\ pc = "start"
    /\ decoder = None
    /\ result = None
    /\ calls = 0
    /\ last = None
    /\ input \in StateTables
    /\ output = None

\* coder.set_table(&table) on the coder RangeCoder::new returns
SetTable ==
    /\ pc = "start"
    /\ \E c \in {set_table(RangeCoder_new(<<0, 0>>), input)} :
           output' = [one_state |-> c.one_state, zero_state |-> c.zero_state]
    /\ pc' = "set"
    /\ UNCHANGED <<overflow_checks, decoder, result, calls, last, input>>

NextTable == SetTable

SpecTable == InitTable /\ [][NextTable]_vars

\* C17 as stated: after set_table(table), zero_state[i] + one_state[256 - i] = 256 for
\* every i in 1..254, and one_state equals table.
C17_StateSymmetry ==
    pc = "set"
    => /\ output.one_state = input
       /\ \A i \in 1..254 : At(output.zero_state, i) + At(output.one_state, 256 - i) = 256

\* C17 amended: after set_table(table) one_state equals table and, for every i in
\* 1..254, zero_state[i] + one_state[256 - i] = 256 when table[256 - i] is not 0 and
\* zero_state[i] = 0 when it is 0; zero_state[0] and zero_state[255] stay as they were.
C17_StateSymmetryNonZero ==
    pc = "set"
    => /\ output.one_state = input
       /\ \A i \in 1..254 :
              IF At(input, 256 - i) # 0
              THEN At(output.zero_state, i) + At(output.one_state, 256 - i) = 256
              ELSE At(output.zero_state, i) = 0
       /\ At(output.zero_state, 0) = At(RangeCoder_new(<<0, 0>>).zero_state, 0)
       /\ At(output.zero_state, 255) = At(RangeCoder_new(<<0, 0>>).zero_state, 255)

\* a table whose entry 255 is 0 has been set: zero_state[1] is 0 and the sum is 0
C17_Witness ==
    /\ pc = "set"
    /\ At(input, 255) = 0
    /\ At(output.zero_state, 1) = 0
    /\ At(output.zero_state, 2) + At(output.one_state, 254) = 256

\* C18: a packet whose slices are each a payload followed by a footer of 4 bytes when
\* ec = 0 and of 8 bytes when ec = 1 is scanned with success; on success the entries
\* are in stream order, entry 0 starts at offset 0, every entry starts where the
\* previous entry's footer ends, the last footer ends at the end of the packet, and
\* each entry's slice_size and error_status are the first four bytes of its footer.
C18_FooterLayout ==
    pc = "scanned"
    => LET buf == input.buf
           footer_size == IF input.ec THEN 8 ELSE 4
           info == output.val
           end_pos(i) == info[i].pos + info[i].size + footer_size
       IN  /\ ~FooterFault(buf, footer_size, Len(buf)) => output.tag = "Ok"
           /\ output.tag = "Ok"
                  => /\ Len(buf) > 0 => Len(info) > 0
                     /\ Len(info) > 0
                            => info[1].pos = 0 /\ end_pos(Len(info)) = Len(buf)
                     /\ \A i \in 1..(Len(info) - 1) : info[i + 1].pos = end_pos(i)
                     /\ \A i \in 1..Len(info) :
                            /\ info[i].size = At(buf, end_pos(i) - footer_size) * 65536
                                              + At(buf, end_pos(i) - footer_size + 1) * 256
                                              + At(buf, end_pos(i) - footer_size + 2)
                            /\ info[i].error_status = At(buf, end_pos(i) - footer_size + 3)

(***************************************************************************)
(* RangeCoder::symbol on a new range coder over a short buffer, with the   *)
(* context vector at its initial value (every state 128).                  *)
(***************************************************************************)
MaxSymbolLen == 4

SymbolBytes == {0, 1, 127, 128, 255}

SymbolBufs == UNION {[1..n -> SymbolBytes] : n \in 2..MaxSymbolLen}

InitSymbol ==
    /\ overflow_checks \in BOOLEAN
    /\ pc = "start"
    /\ decoder = None
    /\ result = None
    /\ calls = 0
    /\ last = None
    /\ input \in [buf : SymbolBufs, signed : BOOLEAN]
    /\ output = None

\* RangeCoder::new(buf).symbol(&mut state, signed)
Symbol ==
    /\ pc = "start"
    /\ \E r \in {symbol(RangeCoder_new(input.buf), Repeat(128, CONTEXT_SIZE), input.signed)} :
           /\ output' = [val |-> r.val, state |-> r.state, low |-> r.c.low, rng |-> r.c.rng,
                         pos |-> r.c.pos, panic |-> r.c.panic]
           /\ pc' = IF r.c.panic THEN "dead" ELSE "read"
    /\ UNCHANGED <<overflow_checks, decoder, result, calls, last, input>>

NextSymbol == Symbol

SpecSymbol == InitSymbol /\ [][NextSymbol]_vars

\* the exponent the claim describes: get(state[1 + min(e, 9)]) until it returns 0,
\* e counting the calls that returned 1; more than 31 of them is a panic
RECURSIVE ClaimExponent(_, _, _)
ClaimExponent(c, state, e) ==
    LET g == get_at(c, state, 1 + (IF e < 9 THEN e ELSE 9))
    IN  IF ~g.bit THEN [c |-> g.c, state |-> g.state, e |-> e, gets |-> e + 1]
        ELSE IF e = 31
        THEN [c |-> [g.c EXCEPT !.panic = TRUE], state |-> g.state, e |-> 32, gets |-> 32]
        ELSE ClaimExponent(g.c, g.state, e + 1)

\* the mantissa the claim describes: a = 2a + get(state[22 + min(i, 9)]) for i from
\* e - 1 down to 0 (a on 32 bits, read as i32)
RECURSIVE ClaimMantissa(_, _, _, _)
ClaimMantissa(c, state, i, a) ==
    IF i < 0 THEN [c |-> c, state |-> state, a |-> a]
    ELSE LET g == get_at(c, state, 22 + (IF i < 9 THEN i ELSE 9))
         IN  ClaimMantissa(g.c, g.state, i - 1, Double32(a, IF g.bit THEN 1 ELSE 0))

\* symbol as the claim describes it, emitting 0 when get(state[0]) is the bit zero_on:
\* the value, the coder and context vector left, and the context indices touched
ClaimSymbol(c, state, signed, zero_on) ==
    LET g0 == get_at(c, state, 0)
        ex == ClaimExponent(g0.c, g0.state, 0)
        ma == ClaimMantissa(ex.c, ex.state, ex.e - 1, 1)
        gs == get_at(ma.c, ma.state, 11 + (IF ex.e < 10 THEN ex.e ELSE 10))
        exponent_at == {1 + (IF e < 9 THEN e ELSE 9) : e \in 0..(ex.gets - 1)}
        mantissa_at == {22 + (IF i < 9 THEN i ELSE 9) : i \in 0..(ex.e - 1)}
    IN  IF g0.bit = zero_on
        THEN [val |-> 0, c |-> g0.c, state |-> g0.state, touched |-> {0}]
        ELSE IF ex.c.panic
        THEN [val |-> 0, c |-> ex.c, state |-> ex.state, touched |-> {0} \cup exponent_at]
        ELSE IF signed
        THEN [val |-> IF gs.bit /\ ma.a # -MaxI32 - 1 THEN -ma.a ELSE ma.a,
              c |-> IF gs.bit /\ ma.a = -MaxI32 - 1 /\ overflow_checks
                    THEN [gs.c EXCEPT !.panic = TRUE] ELSE gs.c,
              state |-> gs.state,
              touched |-> {0} \cup exponent_at \cup mantissa_at
                              \cup {11 + (IF ex.e < 10 THEN ex.e ELSE 10)}]
        ELSE [val |-> ma.a, c |-> ma.c, state |-> ma.state,
              touched |-> {0} \cup exponent_at \cup mantissa_at]

\* what Symbol keeps of a result, for the symbol of the claim
ClaimOutput(zero_on) ==
    LET r == ClaimSymbol(RangeCoder_new(input.buf), Repeat(128, CONTEXT_SIZE),
                         input.signed, zero_on)
    IN  [val |-> r.val, state |-> r.state, low |-> r.c.low, rng |-> r.c.rng,
         pos |-> r.c.pos, panic |-> r.c.panic]

\* C19 as stated: symbol emits 0 if get(state[0]) is 0; otherwise it reads the
\* exponent, the mantissa and, for signed, the sign as described, and every state index
\* it touches lies in 0..31.
C19_SymbolZeroOnZero ==
    pc \in {"read", "dead"}
    => /\ output = ClaimOutput(FALSE)
       /\ ClaimSymbol(RangeCoder_new(input.buf), Repeat(128, CONTEXT_SIZE),
                      input.signed, FALSE).touched \subseteq 0..31

\* C19 amended: symbol emits 0 if get(state[0]) is 1; otherwise it reads the exponent
\* e from state[1 + min(e, 9)] until get returns 0 (it panics at the 32nd 1), the
\* mantissa MSB-first from state[22 + min(i, 9)] starting at a = 1 (a read as i32), and
\* for signed the sign from state[11 + min(e, 10)], negating when set (negating -2^31
\* overflows); every state index it touches lies in 0..31.
C19_SymbolZeroOnOne ==
    pc \in {"read", "dead"}
    => /\ output = ClaimOutput(TRUE)
       /\ ClaimSymbol(RangeCoder_new(input.buf), Repeat(128, CONTEXT_SIZE),
                      input.signed, TRUE).touched \subseteq 0..31

\* a negative symbol has been read: get(state[0]) returned 0, the exponent is 8, the
\* sign bit is set
C19_Witness ==
    /\ pc = "read"
    /\ input.signed
    /\ output.val = -257
    /\ ~br(RangeCoder_new(input.buf), Repeat(128, CONTEXT_SIZE)).bit

\* C21: for every slice header and chroma subsampling, the luma plane of the slice has
\* start_x = slice_x * width / num_h_slices, start_y = slice_y * height / num_v_slices
\* and stride = frame width, and each chroma plane has start_x, start_y, width and
\* height the luma values divided by 2^log2_h (x, width) and 2^log2_v (y, height) with
\* ceiling, stride = ceil(frame width / 2^log2_h) and offset = start_x + start_y * stride.
C21_ChromaPlaneGeometry ==
    pc = "laid"
    => \A cell \in DOMAIN output.slices :
           LET planes == output.slices[cell].planes
               h == 2^input.log2_h_chroma_subsample
               v == 2^input.log2_v_chroma_subsample
               Ceil(a, d) == (a + d - 1) \div d
           IN  \A k \in 1..Len(planes), c \in 1..Len(planes) :
                   /\ planes[k].quant = 0
                          => /\ planes[k].start_x
                                    = (cell[1] * input.width) \div (input.num_h_slices_minus1 + 1)
                             /\ planes[k].start_y
                                    = (cell[2] * input.height) \div (input.num_v_slices_minus1 + 1)
                             /\ planes[k].stride = input.width
                   /\ (planes[k].quant = 0 /\ planes[c].quant = 1)
                          => /\ planes[c].start_x = Ceil(planes[k].start_x, h)
                             /\ planes[c].start_y = Ceil(planes[k].start_y, v)
                             /\ planes[c].width = Ceil(planes[k].width, h)
                             /\ planes[c].height = Ceil(planes[k].height, v)
                             /\ planes[c].stride = Ceil(input.width, h)
                             /\ planes[c].offset
                                    = planes[c].start_x + planes[c].start_y * planes[c].stride

(***************************************************************************)
(* The Golomb-Rice coder and its bit reader on their own: a plane decoded  *)
(* line by line (decode_line calls new_line, then sg once per sample), a   *)
(* series of get_vlc_symbol calls on one state, a series of BitReader::u   *)
(* requests.  input is the operation and its buffer; output the coder,     *)
(* the state and what the last call returned.                              *)
(***************************************************************************)
MaxLines == 2

MaxVlcCalls == 130

MaxBitReads == 4

\* a stream of codes with prefix 11 and an all-ones mantissa of k bits, k the
\* Rice parameter the state asks for at each call
VlcStream ==
    <<0, 28, 0, 124, 0, 127, 0, 31, 224, 3, 254, 0, 63, 240, 1, 255, 192, 7, 255, 128,
      15, 255, 128, 15, 255, 192, 7, 255, 240, 1, 255, 252, 0, 127, 255, 128, 15, 255,
      248, 0, 255, 255, 128, 15, 255, 252, 0, 127, 255, 224, 3, 255, 255, 128, 15,
      255, 254, 0, 63, 255, 252, 0, 127, 255, 248, 0, 255, 255, 248, 0, 255, 255, 248,
      0, 255, 255, 248, 0, 255, 255, 252, 0, 127, 255, 254, 0, 63, 255, 255, 0, 31,
      255, 255, 192, 7, 255, 255, 240, 1, 255, 255, 252, 0, 127, 255, 255, 128, 15,
      255, 255, 240, 1, 255, 255, 254, 0, 63, 255, 255, 224, 3, 255, 255, 254, 0, 63,
      255, 255, 224, 3, 255, 255, 254, 0, 63, 255, 255, 240, 1, 255, 255, 255, 128,
      15, 255, 255, 252, 0, 127, 255, 255, 224, 0, 0, 0, 0>>

LineWidths == {3, 5}

LineBufs == {Repeat(b, 16) : b \in {0, 255, 170, 85, 240, 247}}

VlcBufs == {VlcStream, Repeat(0, 360), Repeat(255, 200), Repeat(170, 360)}

BitBufs == {<<128, 0, 0, 0, 255, 1>>, <<165, 90, 60, 195, 15, 240>>, <<0, 0, 0, 1, 2, 3>>}

BitCounts == {0, 1, 7, 8, 9, 16, 17, 25, 31, 32, 33}

GolombInputs ==
    {[op |-> "lines", buf |-> b, w |-> w] : b \in LineBufs, w \in LineWidths}
    \cup {[op |-> "symbols", buf |-> b, w |-> 0] : b \in VlcBufs}
    \cup {[op |-> "bits", buf |-> b, w |-> 0] : b \in BitBufs}

\* Coder::new (and new_plane for a plane of width w), State::default
InitGolomb ==
    /\ overflow_checks \in BOOLEAN
    /\ input \in GolombInputs
    /\ pc = "coder"
    /\ decoder = None
    /\ result = None
    /\ calls = 0
    /\ last = None
    /\ output = [g |-> new_plane(Golomb_new(input.buf), input.w),
                 state |-> DefaultGolombState,
                 line |-> 0, pending |-> 0, context |-> 0, k |-> 0,
                 from |-> 0, count |-> 0, val |-> 0]

\* decode_line, line 469: golomb_coder.new_line(); pending is the run the coder
\* still had when the line before ended
BeginLine ==
    /\ input.op = "lines"
    /\ pc \in {"coder", "sample"}
    /\ pc = "sample" => output.g.x = input.w
    /\ output.line < MaxLines
    /\ pc' = "line"
    /\ output' = [output EXCEPT !.g = new_line(output.g),
                                !.line = output.line + 1,
                                !.pending = output.g.run_count]
    /\ UNCHANGED <<overflow_checks, decoder, result, calls, last, input>>

\* decode_line, the sample at x: golomb_coder.sg(context, state, bits)
Sg ==
    /\ input.op = "lines"
    /\ pc \in {"line", "sample"}
    /\ output.g.x < input.w
    /\ \E context \in {0, 1} :
       \E r \in {sg(output.g, context, output.state, 8)} :
           /\ output' = [output EXCEPT !.g = r.g, !.state = r.state, !.val = r.val,
                                       !.context = context]
           /\ pc' = IF r.g.panic THEN "dead" ELSE "sample"
    /\ UNCHANGED <<overflow_checks, decoder, result, calls, last, input>>

\* one call of get_vlc_symbol; k is the Rice parameter its loop derived (-1: none)
GetVlc ==
    /\ input.op = "symbols"
    /\ pc \in {"coder", "symbol"}
    /\ calls < MaxVlcCalls
    /\ \E r \in {get_vlc_symbol(output.g, output.state, 8)} :
           /\ output' = [output EXCEPT !.g = r.g, !.state = r.state, !.val = r.val,
                                       !.k = vlc_k(output.state.count,
                                                   output.state.error_sum, 0)]
           /\ pc' = IF r.g.panic THEN "dead" ELSE "symbol"
    /\ calls' = calls + 1
    /\ UNCHANGED <<overflow_checks, decoder, result, last, input>>

\* one call of BitReader::u; from is the number of bits the calls before asked for
ReadBits ==
    /\ input.op = "bits"
    /\ pc \in {"coder", "bits"}
    /\ calls < MaxBitReads
    /\ \E count \in BitCounts :
           /\ count <= 32 => output.from + output.count + count <= 8 * Len(input.buf)
           /\ \E r \in {u(output.g.r, count)} :
                  /\ output' = [output EXCEPT !.g = WithReader(output.g, r.r),
                                              !.val = r.val,
                                              !.from = output.from + output.count,
                                              !.count = count]
                  /\ pc' = IF r.r.panic THEN "dead" ELSE "bits"
    /\ calls' = calls + 1
    /\ UNCHANGED <<overflow_checks, decoder, result, last, input>>

NextGolomb == BeginLine \/ Sg \/ GetVlc \/ ReadBits

SpecGolomb == InitGolomb /\ [][NextGolomb]_vars

\* C22: Golomb runs never cross a line boundary.  At the first sample of every
\* line the coder has run_mode = 0, run_count = 0 and x = 0, whatever run was
\* pending when the line before ended; run mode is entered only by a call of sg
\* with context = 0 while run_mode = 0; and while a run has repeats left, sg
\* returns 0 without reading anything and advances x by exactly 1.
C22_RunsStayInLine ==
    /\ [](pc = "line" => /\ output.g.run_mode = 0
                         /\ output.g.run_count = 0
                         /\ output.g.x = 0)
    /\ [][(input.op = "lines" /\ output.g.run_mode = 0 /\ output'.g.run_mode # 0)
              => (pc' = "sample" /\ output'.context = 0)]_vars
    /\ [][(input.op = "lines" /\ pc' \in {"sample", "dead"}
                /\ output.g.run_mode # 0 /\ output.g.run_count > 0)
              => /\ pc' = "sample"
                 /\ output'.val = 0
                 /\ output'.g.r = output.g.r
                 /\ output'.state = output.state
                 /\ output'.g.x = output.g.x + 1
                 /\ output'.g.run_count = output.g.run_count - 1]_vars

\* a line begins while the line before left a run with repeats pending
C22_Witness ==
    /\ pc = "line"
    /\ output.line = 2
    /\ output.pending > 0

\* bit i of the buffer, the most significant bit of byte 0 being bit 0
BitAt(buf, i) == (At(buf, i \div 8) \div 2^(7 - (i % 8))) % 2

\* the count bits from bit `from` on as a number, most significant first, in the
\* i32 reading the model keeps a u32 in (the first of 32 bits weighs -2^31)
RECURSIVE NextBits(_, _, _)
NextBits(buf, from, count) ==
    IF count = 0 THEN 0
    ELSE IF count = 32
    THEN NextBits(buf, from + 1, 31) - BitAt(buf, from) * 1073741824
                                     - BitAt(buf, from) * 1073741824
    ELSE BitAt(buf, from) * 2^(count - 1) + NextBits(buf, from + 1, count - 1)

\* C25: for requests whose counts lie in 0..32 and whose total does not exceed
\* the buffer's bits, BitReader::u(count) returns exactly the next count bits of
\* the buffer, most significant bit first, continuing where the read before
\* ended, whatever number of bits is still buffered; a request for more than 32
\* bits fails.
C25_NextBits ==
    (input.op = "bits" /\ calls > 0)
    => IF output.count > 32 THEN pc = "dead"
       ELSE /\ pc = "bits"
            /\ output.val = NextBits(input.buf, output.from, output.count)
            /\ 8 * output.g.r.pos - output.g.r.bits_in_buf = output.from + output.count

\* C29: starting from the default Golomb state, after every call of
\* get_vlc_symbol the state has 2 <= count <= 128, -128 <= bias <= 127,
\* -count < drift <= 0 and error_sum >= 0, and the loop that derives the Rice
\* parameter k terminates.
C29_GolombStateInvariant ==
    (input.op = "symbols" /\ calls > 0)
    => /\ output.k >= 0
       /\ pc = "symbol" => /\ 2 <= output.state.count /\ output.state.count <= 128
                           /\ -128 <= output.state.bias /\ output.state.bias <= 127
                           /\ -output.state.count < output.state.drift
                           /\ output.state.drift <= 0
                           /\ output.state.error_sum >= 0

(***************************************************************************)
(* One plane decoded sample by sample: the passes of decode_line's loop,   *)
(* line after line, over a zeroed plane.  decoder holds the record and the *)
(* kind of buffer; output the slice state, the position, and what the last *)
(* pass read and stored.                                                   *)
(***************************************************************************)
MaxRows == 3

\* records whose first quantization table is 0, 1 .. 1, -1 .. -1 (two contexts):
\* 8-bit and 16-bit YCbCr and 8-bit RGB with the range coder, 8-bit YCbCr with Golomb
LineRecords ==
    [Yq8 |-> <<86, 1, 255, 155, 202, 231, 62, 124, 249, 243, 231, 205, 156, 141, 0, 97, 153,
               70, 74>>,
     Yq16 |-> <<86, 0, 103, 154, 189, 1, 79, 135, 14, 28, 56, 112, 224, 190, 185, 0, 248, 45,
                60, 151>>,
     RGBq8 |-> <<85, 248, 51, 36, 136, 85, 139, 22, 44, 88, 177, 97, 189, 89, 0, 165, 209, 62,
                 167>>,
     Gq8 |-> <<86, 47, 22, 158, 72, 5, 74, 149, 42, 84, 169, 77, 245, 255, 0, 156, 153, 99,
               9>>]

\* Gq16 is Gq8 with bits_per_raw_sample set to 16, the configuration decode_line
\* has a branch for and parse_config_record refuses
LineConfigs == {"Yq8", "Yq16", "RGBq8", "Gq8", "Gq16"}

LineStreams ==
    {<<18, 52, 86, 120, 154, 188, 222, 240, 15, 30, 45, 60, 75, 90, 105, 120, 135, 150, 165,
       180, 195, 210, 225, 240>>,
     <<200, 100, 50, 25, 12, 6, 3, 129, 192, 96, 48, 24, 140, 70, 35, 17, 136, 68, 34, 145,
       72, 36, 18, 9>>,
     <<91, 173, 214, 107, 181, 218, 237, 118, 187, 93, 174, 87, 171, 213, 234, 117, 186, 221,
       110, 183, 219, 109, 182, 91>>}

PlaneWidths == {1, 3}

InitLine ==
    /\ overflow_checks \in BOOLEAN
    /\ input \in [config : LineConfigs, buf : LineStreams, width : PlaneWidths, pad : {0, 1}]
    /\ pc = "start"
    /\ decoder = None
    /\ result = None
    /\ calls = 0
    /\ last = None
    /\ output = None

\* what decode_slice and decode_frame set up before the first line of a plane: the
\* record, the coder over the slice's bytes, the states of a keyframe, the zeroed
\* buffer (buf for 8-bit YCbCr, buf16 otherwise), and new_plane for Golomb
BeginPlane ==
    /\ pc = "start"
    /\ \E parsed \in {parse_config_record(
                          LineRecords[IF input.config = "Gq16" THEN "Gq8" ELSE input.config],
                          input.width, MaxRows)} :
       \E record \in {IF input.config = "Gq16"
                      THEN [parsed.val EXCEPT !.bits_per_raw_sample = 16]
                      ELSE parsed.val} :
       \E golomb \in {record.coder_type = 0} :
       \E stride \in {input.width + input.pad} :
       \E sl \in {reset_slice_states([state |-> <<>>, golomb_state |-> <<>>], record)} :
           /\ parsed.tag = "Ok"
           /\ decoder' = [record |-> record, golomb |-> golomb, stride |-> stride,
                          mask_to |-> IF record.colorspace_type = 0
                                         /\ record.bits_per_raw_sample = 8
                                      THEN 256 ELSE 65536]
           /\ output' = [s |-> [coder |-> IF golomb
                                          THEN new_plane(Golomb_new(input.buf), input.width)
                                          ELSE RangeCoder_new(input.buf),
                                state |-> sl.state, golomb_state |-> sl.golomb_state,
                                bufs |-> <<Repeat(0, stride * MaxRows)>>,
                                panic |-> FALSE, which |-> "buf", log |-> <<>>],
                         x |-> 0, y |-> 0]
           /\ pc' = "plane"
    /\ UNCHANGED <<overflow_checks, result, calls, last, input>>

\* the pass of decode_line's loop for the sample at (x, y), after new_line when the
\* line begins; before is the slice state the pass started from, n and reads what
\* derive_borders returned and which indices of the plane it read
DecodeSample ==
    /\ pc \in {"plane", "sample"}
    /\ output.y < MaxRows
    /\ \E record \in {decoder.record} :
       \E shift \in {IF record.colorspace_type = 1
                     THEN (record.bits_per_raw_sample + 1) % 256
                     ELSE record.bits_per_raw_sample} :
       \E e \in {LineOf([header |-> [quant_table_set_index |-> <<0>>]], record,
                        decoder.golomb, decoder.mask_to, 1, 0, input.width, MaxRows,
                        decoder.stride, output.y, 0)} :
       \E s0 \in {IF decoder.golomb /\ output.x = 0
                  THEN [output.s EXCEPT !.coder = new_line(output.s.coder)]
                  ELSE output.s} :
       \E s1 \in {decode_sample(s0, e, shift, record.quant_tables[1], output.x)} :
           /\ output' = [s |-> s1, before |-> s0, at |-> <<output.x, output.y>>,
                         n |-> derive_borders(s0.bufs[1], output.x, output.y, input.width,
                                              MaxRows, decoder.stride),
                         reads |-> border_reads(output.x, output.y, input.width,
                                                decoder.stride),
                         x |-> IF output.x + 1 = input.width THEN 0 ELSE output.x + 1,
                         y |-> IF output.x + 1 = input.width THEN output.y + 1
                               ELSE output.y]
           /\ pc' = IF s1.panic THEN "dead" ELSE "sample"
    /\ calls' = calls + 1
    /\ UNCHANGED <<overflow_checks, decoder, result, last, input>>

NextLine == BeginPlane \/ DecodeSample

SpecLine == InitLine /\ [][NextLine]_vars

\* the sample at line row, column col of a plane with the given stride
SampleAt(plane, stride, row, col) == At(plane, row * stride + col)

\* the six neighbours of (x, y) under the zero-border policy
ZeroBorder(plane, stride, width, x, y) ==
    LET P(row, col) == SampleAt(plane, stride, row, col)
        top == IF y > 0 THEN P(y - 1, x) ELSE 0
    IN  [T  |-> IF y > 1 THEN P(y - 2, x) ELSE 0,
         L  |-> IF y > 0 /\ x = 1 THEN P(y - 1, x - 1)
                ELSE IF x > 1 THEN P(y, x - 2) ELSE 0,
         t  |-> top,
         l  |-> IF x > 0 THEN P(y, x - 1) ELSE top,
         tl |-> IF x = 0 THEN (IF y > 1 THEN P(y - 2, 0) ELSE 0)
                ELSE IF y > 0 THEN P(y - 1, x - 1) ELSE 0,
         tr |-> IF y > 0 THEN P(y - 1, x + (IF width - 1 - x < 1 THEN width - 1 - x ELSE 1))
                ELSE 0]

\* C23: derive_borders implements the zero-border policy for every position
\* (x, y) of a plane of any width >= 1: at (0, 0) all six neighbours are 0; on
\* the first line T, t, tl and tr are 0 and l is the sample to the left; in the
\* first column l = t and tl is the sample two lines up (0 when y = 1); L, tr as
\* the policy defines them; and every sample read lies inside the plane
\* rectangle at a position earlier in raster order than (x, y).
C23_ZeroBorders ==
    pc \in {"sample", "dead"}
    => LET x == output.at[1]
           y == output.at[2]
       IN  /\ output.n = ZeroBorder(output.before.bufs[1], decoder.stride, input.width, x, y)
           /\ (x = 0 /\ y = 0) => \A f \in DOMAIN output.n : output.n[f] = 0
           /\ \A i \in output.reads :
                  /\ i >= 0
                  /\ i % decoder.stride < input.width
                  /\ i \div decoder.stride < MaxRows
                  /\ i < y * decoder.stride + x

\* a sample in the first column, two lines down, whose neighbours are not all alike
C23_Witness ==
    /\ pc = "sample"
    /\ output.at[1] = 0
    /\ output.at[2] = 2
    /\ decoder.stride > input.width
    /\ output.n.tl # output.n.t
    /\ output.n.l = output.n.t
    /\ output.n.tr # output.n.t

\* the middle one of three values
MiddleOf(a, b, c) ==
    LET three == <<a, b, c>>
    IN  CHOOSE m \in {a, b, c} :
            /\ Cardinality({i \in 1..3 : three[i] <= m}) >= 2
            /\ Cardinality({i \in 1..3 : three[i] >= m}) >= 2

\* whether the pass sign-extends its neighbours: 16-bit YCbCr with the Golomb coder
SignExtends == /\ decoder.record.colorspace_type = 0
               /\ decoder.record.bits_per_raw_sample = 16
               /\ decoder.golomb

\* the median of l, t and l + t - tl, the three taken as signed 16-bit values or raw
MedianOf(n, signed16) ==
    LET Ext(v) == IF signed16 /\ v >= 32768 THEN v - 65536 ELSE v
    IN  MiddleOf(Ext(n.l), Ext(n.t), Ext(n.l) + Ext(n.t) - Ext(n.tl))

\* S: bits_per_raw_sample + 1 for RGB, bits_per_raw_sample otherwise
SampleBits == IF decoder.record.colorspace_type = 1
              THEN decoder.record.bits_per_raw_sample + 1
              ELSE decoder.record.bits_per_raw_sample

\* the difference the coder gave for the last pass, the context's sign applied, modulo 2^S
DiffOf(before, n) ==
    LET c0      == get_context(decoder.record.quant_tables[1], n)
        context == IF c0 < 0 THEN -c0 ELSE c0
        raw     == IF decoder.golomb
                   THEN sg(before.coder, context, before.golomb_state[1][context + 1],
                           SampleBits).val
                   ELSE sr(before.coder, before.state[1][context + 1]).val
    IN  IF c0 < 0 THEN (2^SampleBits - (raw % 2^SampleBits)) % 2^SampleBits
        ELSE raw % 2^SampleBits

\* C24: for 16-bit YCbCr decoded with the Golomb coder, decode_line takes l, t and
\* tl as sign-extended 16-bit values before the median; in every other
\* configuration, 16-bit YCbCr with the range coder included, it takes the raw
\* values; and the sample it stores is (median + diff) & (2^S - 1), S being
\* bits_per_raw_sample + 1 for RGB and bits_per_raw_sample otherwise.
C24_StoredSample ==
    pc = "sample"
    => LET x == output.at[1]
           y == output.at[2]
       IN  SampleAt(output.s.bufs[1], decoder.stride, y, x)
               = ((MedianOf(output.n, SignExtends) % 2^SampleBits)
                      + DiffOf(output.before, output.n)) % 2^SampleBits

\* 16-bit YCbCr with Golomb, neighbours of 32768 or more, where the median of the
\* sign-extended values is another sample than the median of the raw ones
C24_Witness ==
    /\ pc = "sample"
    /\ SignExtends
    /\ (MedianOf(output.n, TRUE) - MedianOf(output.n, FALSE)) % 65536 # 0

(***************************************************************************)
(* The range coder on its own: RangeCoder::new over a buffer, then calls   *)
(* of get, each with a state byte of its own (whatever the transition      *)
(* table made of the byte before).  output is the coder, the coder the     *)
(* last call started from, the byte it was given, and what it returned.    *)
(***************************************************************************)
MaxGets == 5

RangeBufs ==
    {<<0, 0>>, <<254, 255>>, <<128, 1, 255>>, <<18, 52, 86, 120>>, <<200, 100, 0, 255>>,
     <<1, 0, 255, 255, 255>>}

StateBytes == {0, 1, 128, 200, 255}

InitRange ==
    /\ overflow_checks \in BOOLEAN
    /\ input \in RangeBufs
    /\ pc = "coder"
    /\ decoder = None
    /\ result = None
    /\ calls = 0
    /\ last = None
    /\ output = [c |-> RangeCoder_new(input), before |-> RangeCoder_new(input),
                 byte |-> 0, s |-> 0, bit |-> FALSE]

\* RangeCoder::get(&mut state) with *state = byte
Get ==
    /\ pc \in {"coder", "got"}
    /\ calls < MaxGets
    /\ \E byte \in StateBytes :
       \E r \in {get(output.c, byte)} :
           /\ output' = [c |-> r.c, before |-> output.c, byte |-> byte, s |-> r.s,
                         bit |-> r.bit]
           /\ pc' = IF r.c.panic THEN "dead" ELSE "got"
    /\ calls' = calls + 1
    /\ UNCHANGED <<overflow_checks, decoder, result, last, input>>

NextRange == Get

SpecRange == InitRange /\ [][NextRange]_vars

\* whether get(byte) from coder c keeps every u16 operation on low and rng in
\* 0..65535: rng -= rangeoff, low -= rng, and refill's rng <<= 8, low <<= 8, low += byte
StaysIn16(c, byte) ==
    LET rangeoff == (c.rng * byte) \div 256
        rng1     == c.rng - rangeoff
        zero     == c.low < rng1
        low2     == IF zero THEN c.low ELSE c.low - rng1
        rng2     == IF zero THEN rng1 ELSE rangeoff
        next     == IF c.pos >= 0 /\ c.pos < Len(c.buf) THEN At(c.buf, c.pos) ELSE 0
    IN  /\ rangeoff <= 65535
        /\ rng1 >= 0
        /\ low2 >= 0
        /\ rng2 < 256 => /\ rng2 * 256 <= 65535
                         /\ low2 * 256 + next <= 65535

\* C30: for a range coder over a buffer of at least 2 bytes whose first two bytes
\* give low < 0xFF00, after every call of get with any state byte:
\* 0x100 <= rng <= 0xFF00, low < rng, 2 <= pos <= buffer length (bytes past the
\* end are read as absent, never indexed), and no 16-bit subtraction, shift or
\* addition on low and rng overflows.
C30_RangeInvariant ==
    calls > 0
    => /\ pc = "got"
       /\ 256 <= output.c.rng /\ output.c.rng <= 65280
       /\ output.c.low < output.c.rng
       /\ 2 <= output.c.pos /\ output.c.pos <= Len(input)
       /\ StaysIn16(output.before, output.byte)

\* a call that refills at the end of the buffer: the shift is made, no byte is read
C30_Witness ==
    /\ pc = "got"
    /\ output.before.pos = Len(input)
    /\ output.c.pos = Len(input)
    /\ output.c.rng # output.before.rng
    /\ output.c.rng % 256 = 0
    /\ output.c.low % 256 = 0
    /\ output.c.low > 0
    /\ output.bit

\* the adaptive state a decoder carries to later non-keyframes: for each slice the
\* range-coder state and, for coder_type 0, the Golomb state
CarriedState(slices) ==
    [k \in 1..Len(slices) |->
        [state |-> slices[k].state,
         golomb_state |-> IF decoder.record.coder_type = 0 THEN slices[k].golomb_state
                          ELSE <<>>]]

\* C26: when decode_frame returns an error, the adaptive state carried for later
\* non-keyframes (per slice the range-coder and Golomb state, and the number of
\* slices) is the same as before the call, so that a valid non-keyframe that
\* follows decodes as if the failed call had not been made.
C26_ErrorKeepsState ==
    (calls > 0 /\ result.tag = "Err")
    => CarriedState(decoder.current_frame.slices) = CarriedState(last.slices)

(***************************************************************************)
(* C27: the adaptive state decode_line selects for a sample exists.        *)
(***************************************************************************)
\* the greatest |get_context(quant_table, ...)| over all neighbour values: the five
\* differences are independent, so every table can give its greatest magnitude at once
GreatestContext(quant_table) ==
    LET Abs(v) == IF v < 0 THEN -v ELSE v
        Top(j) == CHOOSE m \in {Abs(quant_table[j][i]) : i \in 1..256} :
                      \A i \in 1..256 : Abs(quant_table[j][i]) <= m
    IN  Top(1) + Top(2) + Top(3) + Top(4) + Top(5)

\* what decode_line indexes for plane p of a slice whose header was parsed
SelectedStateExists(record, slice, p) ==
    LET qt    == slice.planes[p].quant
        index == slice.header.quant_table_set_index
    IN  /\ InBounds(index, qt)
        /\ At(index, qt) < record.quant_table_set_count
        /\ IF record.coder_type = 0
           THEN qt < Len(slice.golomb_state) ELSE qt < Len(slice.state)
        /\ GreatestContext(record.quant_tables[At(index, qt) + 1])
               <= record.context_count[qt + 1] - 1

\* C27: for every slice of a decoded packet whose header was parsed, and every plane
\* of it, the quantization table set index is below quant_table_set_count, the plane's
\* first index into the slice's state (Golomb state) array is below the number of
\* state sets the slice holds, and the greatest context magnitude is at most
\* context_count - 1 of the set whose states are indexed.
C27_SelectedStateExists ==
    (pc \in {"decoded", "dead"} /\ output # None) =>
        \A t \in 1..Len(output.trace) :
            output.trace[t].laid.parsed =>
                \A p \in 1..Len(output.trace[t].laid.planes) :
                    SelectedStateExists(decoder.record, output.trace[t].laid, p)

(***************************************************************************)
(* C28: the buffer sets decode_slice_content uses were allocated.          *)
(***************************************************************************)
\* the planes the record codes: luma, two chroma planes, the extra plane
CodedPlanes(record) ==
    1 + (IF record.chroma_planes THEN 2 ELSE 0) + (IF record.extra_plane THEN 1 ELSE 0)

\* the buffer sets of the frame that decode_slice_content decodes into and hands to
\* RCT::rct as the source and the destination it indexes (the in-place conversion
\* does not read its source)
BufferSetsUsed(record) ==
    Let([bits \in {record.bits_per_raw_sample} |->
        IF record.colorspace_type # 1
        THEN IF bits = 8 THEN {"buf"} ELSE IF bits = 16 THEN {"buf16"} ELSE {}
        ELSE IF bits = 8 THEN {"buf16", "buf"}
        ELSE IF bits >= 9 /\ bits <= 15 /\ ~record.extra_plane THEN {"buf16"}
        ELSE {"buf32", "buf16"}])

BufferSet(frame, which) ==
    IF which = "buf" THEN frame.buf ELSE IF which = "buf16" THEN frame.buf16 ELSE frame.buf32

\* the rectangle of plane p of the slice lies in plane p of the buffer set; the planes
\* of an RGB slice all have the geometry of the first
RectangleFits(record, bufs, slice, p) ==
    LET plane == IF record.colorspace_type = 1 THEN slice.planes[1] ELSE slice.planes[p]
    IN  /\ p <= Len(bufs)
        /\ plane.width > 0 /\ plane.height > 0
               => plane.offset + (plane.height - 1) * plane.stride + plane.width
                      <= Len(bufs[p])

\* the frame decode_frame allocates for the packet
AllocatedFor == decode_frame_begin(decoder, PicturePackets[input.packet])

\* C28: once decode_frame has run on a decoder of an accepted record, the frame was
\* allocated, and every buffer set decode_slice_content decodes into or hands to the
\* inverse RCT has one plane per coded plane, each long enough for the rectangle of
\* every slice whose header was parsed.
C28_BufferSetsAllocated ==
    (pc \in {"decoded", "dead"} /\ output # None) =>
        /\ AllocatedFor.res # Panic("allocation")
        /\ \A which \in BufferSetsUsed(decoder.record) :
               /\ Len(BufferSet(AllocatedFor.frame, which)) = CodedPlanes(decoder.record)
               /\ \A t \in 1..Len(output.trace) :
                      output.trace[t].laid.parsed =>
                          \A p \in 1..Len(output.trace[t].laid.planes) :
                              RectangleFits(decoder.record,
                                            BufferSet(AllocatedFor.frame, which),
                                            output.trace[t].laid, p)

====
